---- MODULE Spec2Model ----
(***************************************************************************)
(* Model of tanstack-api-generator: the query key factory                  *)
(* (src/keys/createKeyFactory.ts), the fetch wrapper                       *)
(* (src/fetch/createFetcher.ts), the generated hooks (createHooks) and the *)
(* invalidation utilities (src/invalidation/createInvalidation.ts).        *)
(*                                                                         *)
(* Strings the code inspects character by character (path templates,      *)
(* parameter names, parameter values) are sequences of one-character       *)
(* strings.  A JavaScript object is the sequence of its entries in         *)
(* insertion order, each entry a record [k |-> name, v |-> value].         *)
(***************************************************************************)
EXTENDS Integers, Sequences, FiniteSets, TLC

VARIABLES
  setup,      \* the call of createQueryAPI: its config and its result
  kcall,      \* the last call of a key function and its result
  fcfg,       \* the FetchConfig createFetcher was given
  call,       \* the fetcher call in progress: position and locals
  aborted,    \* whether the AbortSignal of the call has been aborted
  sent,       \* the invocations of fetch made by the call, in order
  trace,      \* the pipeline stages the call has executed, in order
  outcome,    \* the promise the fetcher returned for the call
  hook,       \* the generated hook or invalidation helper in use
  invalidations,  \* the calls of queryClient.invalidateQueries, in order
  suspended   \* the other fetcher call in flight, waiting at its await

vars == <<setup, kcall, fcfg, call, aborted, sent, trace, outcome, hook,
          invalidations, suspended>>

(***************************************************************************)
(* Bounds                                                                  *)
(***************************************************************************)
\* largest number of entries of a params or query object
MaxEntries == 2

(***************************************************************************)
(* Characters and strings                                                  *)
(***************************************************************************)
\* UTF-16 code units of the characters the model uses
CharCode == [c \in {"/", "1", "2", ":", "_", "a", "b", "u"} |->
               CASE c = "/" -> 47 [] c = "1" -> 49 [] c = "2" -> 50
                 [] c = ":" -> 58 [] c = "_" -> 95 [] c = "a" -> 97
                 [] c = "b" -> 98 [] c = "u" -> 117]

\* Values: a string is <<"str", characters>>, a number is <<"num", n>> and
\* undefined is the 1-tuple below
Undefined == <<"undefined">>

StrVal(s) == <<"str", s>>

NumVal(n) == <<"num", n>>

\* the default comparison of Array.prototype.sort on strings: code-unit
\* lexicographic order
RECURSIVE StrLess(_, _)
StrLess(s, t) ==
  IF s = <<>> THEN t # <<>>
  ELSE IF t = <<>> THEN FALSE
  ELSE IF s[1] = t[1] THEN StrLess(Tail(s), Tail(t))
  ELSE CharCode[s[1]] < CharCode[t[1]]

(***************************************************************************)
(* JavaScript objects                                                      *)
(***************************************************************************)
\* parameter and query names
Names == {<<"a">>, <<"b">>}

\* parameter and query values; an entry may hold undefined
Values == {StrVal(<<"1">>), Undefined}

\* Object.keys(o): the keys in insertion order
ObjectKeys(o) == [i \in 1..Len(o) |-> o[i].k]

\* key in o
HasKey(o, key) == \E i \in 1..Len(o) : o[i].k = key

\* o[key]
Get(o, key) ==
  IF HasKey(o, key) THEN o[CHOOSE i \in 1..Len(o) : o[i].k = key].v
  ELSE Undefined

\* the objects of at most n entries with distinct keys, in every insertion
\* order
RECURSIVE ObjectsOfLen(_)
ObjectsOfLen(n) ==
  IF n = 0 THEN {<<>>}
  ELSE {Append(o, [k |-> key, v |-> val]) :
          o \in {p \in ObjectsOfLen(n - 1) : Len(p) = n - 1},
          key \in Names, val \in Values} \cup ObjectsOfLen(n - 1)

Objects == {o \in ObjectsOfLen(MaxEntries) :
              \A i, j \in 1..Len(o) : o[i].k = o[j].k => i = j}

\* an optional object argument: def = FALSE is the argument left undefined
NoObject == [def |-> FALSE, ents |-> <<>>]

OptObjects == {NoObject} \cup {[def |-> TRUE, ents |-> o] : o \in Objects}

\* Array.prototype.sort without comparator
RECURSIVE SortInsert(_, _)
SortInsert(x, s) ==
  IF s = <<>> THEN <<x>>
  ELSE IF StrLess(x, s[1]) THEN <<x>> \o s
  ELSE <<s[1]>> \o SortInsert(x, Tail(s))

RECURSIVE Sort(_)
Sort(s) == IF s = <<>> THEN <<>> ELSE SortInsert(s[1], Sort(Tail(s)))

(***************************************************************************)
(* Query key factory: src/keys/createKeyFactory.ts                         *)
(***************************************************************************)
\* the loop that copies the entries of o in the order of keys, skipping
\* undefined values
RECURSIVE CopyDefined(_, _)
CopyDefined(o, keys) ==
  IF keys = <<>> THEN <<>>
  ELSE (IF Get(o, keys[1]) # Undefined
          THEN <<[k |-> keys[1], v |-> Get(o, keys[1])]>>
          ELSE <<>>) \o CopyDefined(o, Tail(keys))

\* createKey without the sort of the keys
SortedObjectUnsorted(o) == CopyDefined(o, ObjectKeys(o))

\* the object createKey pushes for params (and for query)
SortedObject(o) == CopyDefined(o, Sort(ObjectKeys(o)))

\* the condition under which createKey pushes an object
PushesObject(arg) == arg.def /\ Len(ObjectKeys(arg.ents)) > 0

createKey(group, endpoint, params, query) ==
  <<group, endpoint>>
    \o (IF PushesObject(params) THEN <<SortedObject(params.ents)>> ELSE <<>>)
    \o (IF PushesObject(query) THEN <<SortedObject(query.ents)>> ELSE <<>>)

(***************************************************************************)
(* The API configuration handed to createQueryAPI                          *)
(***************************************************************************)
\* Values of a configuration: an object is <<"obj", entries>>, a function
\* is the 1-tuple Fn, null is the 1-tuple Null
Null == <<"null">>

Fn == <<"function">>

Obj(ents) == <<"obj", ents>>

Field(k, v) == [k |-> k, v |-> v]

\* typeof v
TypeOf(v) ==
  CASE v[1] = "str" -> "string"
    [] v[1] = "num" -> "number"
    [] v[1] = "undefined" -> "undefined"
    [] v[1] = "function" -> "function"
    [] OTHER -> "object"

\* the truthiness of a value
Truthy(v) ==
  CASE v[1] = "undefined" -> FALSE
    [] v[1] = "null" -> FALSE
    [] v[1] = "str" -> v[2] # <<>>
    [] v[1] = "num" -> v[2] # 0
    [] OTHER -> TRUE

\* key in o, and o[key], for an object value o
In(key, o) == HasKey(o[2], key)

Prop(o, key) == Get(o[2], key)

\* a zod schema: an object with parse and safeParse
ZodSchema == Obj(<<Field("parse", Fn), Field("safeParse", Fn)>>)

\* an object that has parse but no safeParse
ParseOnlySchema == Obj(<<Field("parse", Fn)>>)

\* typeof schema.safeParse === "function", for a truthy schema
HasSafeParse(schema) ==
  TypeOf(schema) = "object" /\ TypeOf(Prop(schema, "safeParse")) = "function"

\* an object that is not a schema
PlainObject == Obj(<<Field("invalid", StrVal(<<"u">>))>>)

Methods == {"GET", "POST", "PUT", "PATCH", "DELETE"}

\* isEndpointConfig(value)
isEndpointConfig(value) ==
  /\ Truthy(value)
  /\ TypeOf(value) = "object"
  /\ In("method", value)
  /\ In("path", value)
  /\ TypeOf(Prop(value, "method")) = "string"
  /\ TypeOf(Prop(value, "path")) = "string"

\* the Error thrown by validateConfig or validateEndpoint: the text of its
\* message, the location the message quotes and the value it reports
ConfigError(text, location, got) ==
  [thrown |-> TRUE, text |-> text, location |-> location, got |-> got]

NoConfigError ==
  [thrown |-> FALSE, text |-> "", location |-> <<>>, got |-> Undefined]

\* validateEndpoint without the check of the leading '/'
validateEndpointAnyPath(endpoint, location) ==
  IF ~In("method", endpoint)
    THEN ConfigError("missing required field \"method\"", location, Undefined)
  ELSE IF TypeOf(Prop(endpoint, "method")) # "string"
    THEN ConfigError("\"method\" must be a string", location, Undefined)
  ELSE IF Prop(endpoint, "method")[2] \notin {<<m>> : m \in Methods}
    THEN ConfigError("\"method\" must be one of GET, POST, PUT, PATCH, DELETE",
                     location, Prop(endpoint, "method"))
  ELSE IF ~In("path", endpoint)
    THEN ConfigError("missing required field \"path\"", location, Undefined)
  ELSE IF TypeOf(Prop(endpoint, "path")) # "string"
    THEN ConfigError("\"path\" must be a string", location, Undefined)
  ELSE IF Len(Prop(endpoint, "path")[2]) = 0
    THEN ConfigError("\"path\" cannot be empty", location, Undefined)
  ELSE IF /\ In("schema", endpoint)
          /\ Prop(endpoint, "schema") # Undefined
          /\ IF TypeOf(Prop(endpoint, "schema")) # "object" THEN TRUE
             ELSE IF Prop(endpoint, "schema") = Null THEN TRUE
             ELSE TypeOf(Prop(Prop(endpoint, "schema"), "parse")) # "function"
    THEN ConfigError("\"schema\" must be a Zod schema object", location,
                     Undefined)
  ELSE NoConfigError

\* validateEndpoint(endpoint, path): the first check that fails
validateEndpoint(endpoint, location) ==
  IF ~In("method", endpoint)
    THEN ConfigError("missing required field \"method\"", location, Undefined)
  ELSE IF TypeOf(Prop(endpoint, "method")) # "string"
    THEN ConfigError("\"method\" must be a string", location, Undefined)
  ELSE IF Prop(endpoint, "method")[2] \notin {<<m>> : m \in Methods}
    THEN ConfigError("\"method\" must be one of GET, POST, PUT, PATCH, DELETE",
                     location, Prop(endpoint, "method"))
  ELSE IF ~In("path", endpoint)
    THEN ConfigError("missing required field \"path\"", location, Undefined)
  ELSE IF TypeOf(Prop(endpoint, "path")) # "string"
    THEN ConfigError("\"path\" must be a string", location, Undefined)
  ELSE IF Len(Prop(endpoint, "path")[2]) = 0
    THEN ConfigError("\"path\" cannot be empty", location, Undefined)
  ELSE IF Prop(endpoint, "path")[2][1] # "/"
    THEN ConfigError("\"path\" must start with \"/\"", location,
                     Prop(endpoint, "path"))
  ELSE IF /\ In("schema", endpoint)
          /\ Prop(endpoint, "schema") # Undefined
          /\ IF TypeOf(Prop(endpoint, "schema")) # "object" THEN TRUE
             ELSE IF Prop(endpoint, "schema") = Null THEN TRUE
             ELSE TypeOf(Prop(Prop(endpoint, "schema"), "parse")) # "function"
    THEN ConfigError("\"schema\" must be a Zod schema object", location,
                     Undefined)
  ELSE NoConfigError

\* lines 643-653: the endpoints of a nested group from position j on
RECURSIVE ValidateEndpoints(_, _, _)
ValidateEndpoints(group, ents, j) ==
  IF j > Len(ents) THEN NoConfigError
  ELSE IF ~Truthy(ents[j].v) \/ TypeOf(ents[j].v) # "object"
    THEN ConfigError("endpoint must be a non-null object",
                     <<group, ents[j].k>>, Undefined)
  ELSE IF validateEndpoint(ents[j].v, <<group, ents[j].k>>).thrown
    THEN validateEndpoint(ents[j].v, <<group, ents[j].k>>)
  ELSE ValidateEndpoints(group, ents, j + 1)

\* lines 622-655: the groups of the configuration from position i on
RECURSIVE ValidateGroups(_, _)
ValidateGroups(groups, i) ==
  IF i > Len(groups) THEN NoConfigError
  ELSE LET group == groups[i].k
           groupConfig == groups[i].v
           r == IF ~Truthy(groupConfig) \/ TypeOf(groupConfig) # "object"
                  THEN ConfigError("group must be a non-null object",
                                   <<group>>, Undefined)
                ELSE IF isEndpointConfig(groupConfig)
                  THEN validateEndpoint(groupConfig, <<group>>)
                ELSE IF Len(ObjectKeys(groupConfig[2])) = 0
                  THEN ConfigError("group must contain at least one endpoint",
                                   <<group>>, Undefined)
                ELSE ValidateEndpoints(group, groupConfig[2], 1)
       IN IF r.thrown THEN r ELSE ValidateGroups(groups, i + 1)

validateConfig(config) ==
  IF ~Truthy(config) \/ TypeOf(config) # "object"
    THEN ConfigError("config must be a non-null object", <<>>, Undefined)
  ELSE IF Len(ObjectKeys(config[2])) = 0
    THEN ConfigError("config must contain at least one endpoint group", <<>>,
                     Undefined)
  ELSE ValidateGroups(config[2], 1)

\* one endpoint of the configuration as createKeyFactory, createHooks and
\* createInvalidation see it: direct = TRUE is an endpoint declared at group
\* level (its endpoint name is then the group name); schema, bodySchema and
\* querySchema say whether the schema is set
Endpoint(group, name, direct, method, path, schema, bodySchema, querySchema) ==
  [group |-> group, name |-> name, direct |-> direct, method |-> method,
   path |-> path, schema |-> schema, bodySchema |-> bodySchema,
   querySchema |-> querySchema]

EndpointOf(group, name, direct, e) ==
  Endpoint(group, name, direct, Prop(e, "method")[2][1], Prop(e, "path")[2],
           Truthy(Prop(e, "schema")), Truthy(Prop(e, "bodySchema")),
           Truthy(Prop(e, "querySchema")))

\* the endpoints the loops over a configuration visit: the group itself
\* when isEndpointConfig says so, else each member of the group
EndpointsOf(config) ==
  UNION { IF isEndpointConfig(config[2][i].v)
            THEN {EndpointOf(config[2][i].k, config[2][i].k, TRUE,
                             config[2][i].v)}
            ELSE {EndpointOf(config[2][i].k, config[2][i].v[2][j].k, FALSE,
                             config[2][i].v[2][j].v) :
                    j \in 1..Len(config[2][i].v[2])} :
          i \in 1..Len(config[2]) }

\* an EndpointConfig literal: the name of the method is kept as one token, a
\* field is left out when it is given as undefined
EndpointObject(method, path, schema, bodySchema, querySchema) ==
  Obj(<<Field("method", StrVal(<<method>>)), Field("path", StrVal(path))>>
        \o (IF schema = Undefined THEN <<>> ELSE <<Field("schema", schema)>>)
        \o (IF bodySchema = Undefined THEN <<>>
            ELSE <<Field("bodySchema", bodySchema)>>)
        \o (IF querySchema = Undefined THEN <<>>
            ELSE <<Field("querySchema", querySchema)>>))

\* the configuration the generated API of the model is created from; the
\* group tags names its endpoints all and invalidate
ConfigObject ==
  Obj(<<
    Field("users", Obj(<<
      Field("list", EndpointObject("GET", <<"/", "u">>,
                                   ZodSchema, Undefined, ZodSchema)),
      Field("get", EndpointObject("GET", <<"/", "u", "/", ":", "a">>,
                                  ZodSchema, Undefined, Undefined)),
      Field("create", EndpointObject("POST", <<"/", "u">>,
                                     ZodSchema, ZodSchema, Undefined)),
      Field("update", EndpointObject("PUT", <<"/", "u", "/", ":", "a">>,
                                     Undefined, ZodSchema, Undefined)),
      Field("patch", EndpointObject("PATCH", <<"/", "u", "/", ":", "a">>,
                                    Undefined, Undefined, Undefined)),
      Field("remove", EndpointObject("DELETE", <<"/", "u", "/", ":", "a">>,
                                     Undefined, Undefined, Undefined)) >>)),
    Field("posts", Obj(<<
      Field("list", EndpointObject("GET", <<"/", "b">>,
                                   Undefined, Undefined, Undefined)),
      Field("get", EndpointObject("GET", <<"/", "b", "/", ":", "a">>,
                                  Undefined, Undefined, ZodSchema)) >>)),
    Field("logout", EndpointObject("POST", <<"/", "b", "/", "u">>,
                                   Undefined, Undefined, Undefined)),
    Field("tags", Obj(<<
      Field("all", EndpointObject("GET", <<"/", "b">>,
                                  Undefined, Undefined, Undefined)),
      Field("invalidate", EndpointObject("DELETE", <<"/", "b", "/", ":", "a">>,
                                         Undefined, Undefined, Undefined)) >>))
  >>)

\* the endpoints of the configuration
Config == EndpointsOf(ConfigObject)

\* createQueryAPI(config): validateConfig throws, or the API is assembled
createQueryAPI(config) ==
  [state |-> IF validateConfig(config).thrown THEN "threw" ELSE "created",
   config |-> config, error |-> validateConfig(config)]

\* before createQueryAPI is called
NoSetup == [state |-> "none", config |-> Undefined, error |-> NoConfigError]

\* the endpoint of a nested group that has the given name, if any
NestedEndpoints(endpoints, group, name) ==
  {ep \in endpoints : ep.group = group /\ ~ep.direct /\ ep.name = name}

\* createInvalidation lines 75-94: what invalidation[group].invalidate[name]
\* is for a nested group; the functions of the endpoints are assigned after
\* the function all
InvalidateMember(endpoints, group, name) ==
  IF NestedEndpoints(endpoints, group, name) # {} THEN "endpoint"
  ELSE IF name = "all" THEN "all"
  ELSE "undefined"

\* createQueryAPI lines 586-596: what api[group][name] is for a nested
\* group; invalidate is assigned after the endpoints
ApiMember(endpoints, group, name) ==
  IF name = "invalidate" THEN "invalidate"
  ELSE IF NestedEndpoints(endpoints, group, name) # {} THEN "endpoint"
  ELSE "undefined"

\* api.<group>.<endpoint> (api.<group> for a direct endpoint) holds the
\* hooks and the key function of the endpoint
ApiHasEndpoint(endpoints, ep) ==
  ep.direct \/ ApiMember(endpoints, ep.group, ep.name) = "endpoint"

\* createKeyFactory(config)[group][endpoint].key, or [group].key for a
\* direct endpoint
KeyFn(ep, params, query) ==
  IF ep.direct THEN createKey(ep.group, ep.group, params, query)
  ELSE createKey(ep.group, ep.name, params, query)

(***************************************************************************)
(* State of the key factory: the last call of a key function               *)
(***************************************************************************)
NoKeyCall ==
  [group |-> "", endpoint |-> "", params |-> NoObject, query |-> NoObject,
   result |-> <<>>]

InitKeys == kcall = NoKeyCall

\* api.<group>.<endpoint>.key(params, query)
KeyCall(ep, params, query) ==
  /\ kcall' = [group |-> ep.group, endpoint |-> ep.name, params |-> params,
               query |-> query, result |-> KeyFn(ep, params, query)]
  /\ UNCHANGED <<suspended, setup, fcfg, call, aborted, sent, trace, outcome, hook,
                 invalidations>>


(***************************************************************************)
(* Path template engine: src/fetch/createFetcher.ts                        *)
(***************************************************************************)
Letters == {"a", "b", "u"}

Digits == {"1", "2"}

\* [a-zA-Z_]
IsIdStart(c) == c \in Letters \cup {"_"}

\* [a-zA-Z0-9_]
IsIdChar(c) == c \in Letters \cup Digits \cup {"_"}

\* a name that runs up to the next '/'
RECURSIVE TakeIdentToSlash(_, _)
TakeIdentToSlash(s, i) ==
  IF i <= Len(s) /\ s[i] # "/" THEN <<s[i]>> \o TakeIdentToSlash(s, i + 1)
  ELSE <<>>

\* the longest run of identifier characters of s that starts at position i
RECURSIVE TakeIdent(_, _)
TakeIdent(s, i) ==
  IF i <= Len(s) /\ IsIdChar(s[i]) THEN <<s[i]>> \o TakeIdent(s, i + 1)
  ELSE <<>>

\* the matches of /:([a-zA-Z_][a-zA-Z0-9_]*)/g from position i on, each
\* without its leading ':'
RECURSIVE MatchesFrom(_, _)
MatchesFrom(s, i) ==
  IF i > Len(s) THEN <<>>
  ELSE IF s[i] = ":" /\ i + 1 <= Len(s) /\ IsIdStart(s[i + 1])
    THEN <<TakeIdent(s, i + 1)>>
           \o MatchesFrom(s, i + 1 + Len(TakeIdent(s, i + 1)))
  ELSE MatchesFrom(s, i + 1)

extractParamNames(path) == MatchesFrom(path, 1)

\* pat occurs in s at position i
OccursAt(s, pat, i) ==
  /\ i + Len(pat) - 1 <= Len(s)
  /\ \A j \in 1..Len(pat) : s[i + j - 1] = pat[j]

\* the replacement text of String.prototype.replace from position i of rep
\* on: '$$' stands for '$', '$&' for the matched text, '$`' for the text
\* before the match and "$'" for the text after it
RECURSIVE ExpandReplacement(_, _, _, _, _)
ExpandReplacement(rep, i, matched, before, after) ==
  IF i > Len(rep) THEN <<>>
  ELSE IF rep[i] = "$" /\ i + 1 <= Len(rep)
          /\ rep[i + 1] \in {"$", "&", "`", "'"}
    THEN (CASE rep[i + 1] = "$" -> <<"$">>
            [] rep[i + 1] = "&" -> matched
            [] rep[i + 1] = "`" -> before
            [] rep[i + 1] = "'" -> after)
           \o ExpandReplacement(rep, i + 2, matched, before, after)
  ELSE <<rep[i]>> \o ExpandReplacement(rep, i + 1, matched, before, after)

\* String.prototype.replace(pat, rep) with a string pattern: the first
\* occurrence only, s unchanged when there is none
StrReplace(s, pat, rep) ==
  IF \E i \in 1..Len(s) : OccursAt(s, pat, i)
    THEN LET i == CHOOSE i \in 1..Len(s) :
                    /\ OccursAt(s, pat, i)
                    /\ \A j \in 1..(i - 1) : ~OccursAt(s, pat, j)
             before == SubSeq(s, 1, i - 1)
             after == SubSeq(s, i + Len(pat), Len(s))
         IN before \o ExpandReplacement(rep, 1, pat, before, after) \o after
    ELSE s

\* String(value) of a scalar: a string is itself, a number its decimal
\* digits, null the text "null", undefined the text "undefined" (kept as
\* one token)
DecimalDigit == [n \in 0..9 |->
                   CASE n = 1 -> "1" [] n = 2 -> "2" [] OTHER -> "0"]

RECURSIVE Decimal(_)
Decimal(n) ==
  IF n < 10 THEN <<DecimalDigit[n]>>
  ELSE Decimal(n \div 10) \o <<DecimalDigit[n % 10]>>

String(v) ==
  IF v = Undefined THEN Undefined
  ELSE IF v = Null THEN <<"n", "u", "l", "l">>
  ELSE IF v[1] = "num" THEN Decimal(v[2])
  ELSE v[2]

\* the loop of replacePath over the remaining names: thrown = TRUE with the
\* name that was missing, or the path after every replacement
RECURSIVE ReplaceLoop(_, _, _)
ReplaceLoop(result, names, params) ==
  IF names = <<>> THEN [thrown |-> FALSE, path |-> result, missing |-> <<>>]
  ELSE IF ~HasKey(params, names[1])
    THEN [thrown |-> TRUE, path |-> <<>>, missing |-> names[1]]
  ELSE ReplaceLoop(StrReplace(result, <<":">> \o names[1],
                              String(Get(params, names[1]))),
                   Tail(names), params)

\* replacePath returning the template instead of throwing
replacePathUnchecked(path, params) ==
  IF ~params.def \/ ReplaceLoop(path, extractParamNames(path),
                                params.ents).thrown
    THEN [thrown |-> FALSE, path |-> path, missing |-> <<>>]
    ELSE ReplaceLoop(path, extractParamNames(path), params.ents)

replacePath(path, params) ==
  IF ~params.def THEN [thrown |-> FALSE, path |-> path, missing |-> <<>>]
  ELSE ReplaceLoop(path, extractParamNames(path), params.ents)

(***************************************************************************)
(* Query serializer: buildQueryString                                      *)
(***************************************************************************)
\* an array value is <<"arr", items>>
Arr(items) == <<"arr", items>>

\* the characters of the model that URLSearchParams.toString escapes, with
\* their escapes; it keeps letters, digits and '_'
FormEscapes ==
  [c \in {"/", ":", "{", "}", "\"", ",", " "} |->
     CASE c = "/" -> <<"%", "2", "F">>
       [] c = ":" -> <<"%", "3", "A">>
       [] c = "{" -> <<"%", "7", "B">>
       [] c = "}" -> <<"%", "7", "D">>
       [] c = "\"" -> <<"%", "2", "2">>
       [] c = "," -> <<"%", "2", "C">>
       [] c = " " -> <<"+">>]

FormEncodeChar(c) ==
  IF c \in DOMAIN FormEscapes THEN FormEscapes[c] ELSE <<c>>

RECURSIVE FormEncode(_)
FormEncode(s) ==
  IF s = <<>> THEN <<>> ELSE FormEncodeChar(s[1]) \o FormEncode(Tail(s))

\* JSON.stringify of a scalar member and of an object with scalar members
JSONScalar(v) ==
  IF v[1] = "num" THEN Decimal(v[2]) ELSE <<"\"">> \o v[2] \o <<"\"">>

RECURSIVE JSONMembers(_, _)
JSONMembers(ents, i) ==
  IF i > Len(ents) THEN <<>>
  ELSE (IF i > 1 THEN <<",">> ELSE <<>>)
         \o <<"\"">> \o ents[i].k \o <<"\"", ":">> \o JSONScalar(ents[i].v)
         \o JSONMembers(ents, i + 1)

StringifyObject(v) == <<"{">> \o JSONMembers(v[2], 1) \o <<"}">>

\* the text of the pair that params.append(key, text) adds
Pair(key, text) == FormEncode(key) \o <<"=">> \o FormEncode(text)

\* value.forEach that appends the first item only
RECURSIVE ArrayPairsFirstOnly(_, _, _)
ArrayPairsFirstOnly(key, items, i) ==
  IF i > Len(items) THEN <<>>
  ELSE IF items[i] # Undefined /\ items[i] # Null
    THEN <<Pair(key, String(items[i]))>>
  ELSE ArrayPairsFirstOnly(key, items, i + 1)

\* lines 243-247: the pairs appended for the items of an array from
\* position i on
RECURSIVE ArrayPairs(_, _, _)
ArrayPairs(key, items, i) ==
  IF i > Len(items) THEN <<>>
  ELSE (IF items[i] # Undefined /\ items[i] # Null
          THEN <<Pair(key, String(items[i]))>> ELSE <<>>)
         \o ArrayPairs(key, items, i + 1)

\* lines 237-254: the pairs appended for one entry
EntryPairs(key, value) ==
  IF value = Undefined \/ value = Null THEN <<>>
  ELSE IF value[1] = "arr" THEN ArrayPairs(key, value[2], 1)
  ELSE IF value[1] = "obj" THEN <<Pair(key, StringifyObject(value))>>
  ELSE <<Pair(key, String(value))>>

\* the pairs appended for the entries from position i on
RECURSIVE QueryPairs(_, _)
QueryPairs(o, i) ==
  IF i > Len(o) THEN <<>>
  ELSE EntryPairs(o[i].k, o[i].v) \o QueryPairs(o, i + 1)

\* params.toString(): the pairs joined by '&'
RECURSIVE JoinPairs(_)
JoinPairs(pairs) ==
  IF pairs = <<>> THEN <<>>
  ELSE IF Len(pairs) = 1 THEN pairs[1]
  ELSE pairs[1] \o <<"&">> \o JoinPairs(Tail(pairs))

buildQueryString(query) ==
  IF ~query.def THEN <<>> ELSE JoinPairs(QueryPairs(query.ents, 1))

\* s.includes(c) for a one-character c
Includes(s, c) == \E i \in 1..Len(s) : s[i] = c

(***************************************************************************)
(* Errors and promise outcomes                                             *)
(***************************************************************************)
\* a thrown value: native says whether it is an instance of Error, props
\* are the properties the type guards look for
Thrown(name, native, props, status, statusText, message, data, type, errors) ==
  [name |-> name, native |-> native, props |-> props, status |-> status,
   statusText |-> statusText, message |-> message, data |-> data,
   type |-> type, errors |-> errors]

\* new Error(message), new TypeError(message), a SyntaxError of JSON.parse
NativeError(name, message) ==
  Thrown(name, TRUE, {"message"}, -1, "", message, Undefined, "", Undefined)

\* the APIError object literal
APIError(status, statusText, message, data) ==
  Thrown("Object", FALSE, {"status", "statusText", "message", "data"},
         status, statusText, message, data, "", Undefined)

\* the ValidationError object literal
ValidationError(errors) ==
  Thrown("Object", FALSE, {"type", "errors"}, -1, "", <<>>, Undefined,
         "validation", errors)

\* the DOMException fetch rejects with when its signal is aborted
AbortError ==
  Thrown("AbortError", TRUE, {"message", "name", "code"}, -1, "",
         <<"This operation was aborted">>, Undefined, "", Undefined)

\* the TypeError of a call of a property that is not a function
NotAFunction(callee) ==
  NativeError("TypeError", <<callee, " is not a function">>)

\* the TypeError fetch rejects with when the network fails
NetworkFailure == NativeError("TypeError", <<"Failed to fetch">>)

isAPIError(e) == {"status", "statusText", "message"} \subseteq e.props

isValidationError(e) ==
  "type" \in e.props /\ e.type = "validation" /\ "errors" \in e.props

\* a catch block that rethrows whatever it caught
CatchBlockRethrow(e) == e

\* the catch block of fetcher
CatchBlock(e) ==
  IF isAPIError(e) \/ isValidationError(e) THEN e
  ELSE APIError(0, "Network Error",
                IF e.native THEN e.message
                ELSE <<"An unknown error occurred">>,
                Undefined)

NoError == NativeError("", <<>>)

Pending == [state |-> "pending", value |-> Undefined, error |-> NoError]

Resolved(v) == [state |-> "resolved", value |-> v, error |-> NoError]

Rejected(e) == [state |-> "rejected", value |-> Undefined, error |-> e]

NoOutcome == [state |-> "none", value |-> Undefined, error |-> NoError]

(***************************************************************************)
(* Schemas: the safeParse of the zod schemas of an endpoint                *)
(***************************************************************************)
\* request bodies and decoded response values
GoodValue == <<"value", "good">>

BadValue == <<"value", "bad">>

\* schema.safeParse(v): the schema accepts GoodValue and returns it
\* normalized; it rejects every other value
SafeParse(v) ==
  IF v = GoodValue
    THEN [success |-> TRUE, data |-> <<"normalized", "good">>,
          error |-> Undefined]
    ELSE [success |-> FALSE, data |-> Undefined, error |-> <<"issues", v>>]

(***************************************************************************)
(* The fetcher returned by createFetcher                                   *)
(***************************************************************************)
\* headers are sets of header names
ContentTypeHeader == "Content-Type"

\* the signal of a call: "none" when the caller passed none
CallerSignal == "signal"

\* headersOf says which object the headers of a requestInit are: an object
\* of the call, or the headers object of the config
NoInit ==
  [method |-> "", headers |-> {}, headersOf |-> "call", signal |-> "none",
   body |-> Undefined]

NoResponse == [ok |-> FALSE, status |-> -1, statusText |-> "", ctype |-> "none"]

NoOptions ==
  [path |-> <<>>, method |-> "", params |-> NoObject, query |-> NoObject,
   body |-> Undefined, signal |-> "none", schema |-> FALSE,
   bodySchema |-> FALSE, schemaSafeParse |-> FALSE,
   bodySchemaSafeParse |-> FALSE]

\* the text of a body that has not been read
NoText == <<"text", "unread">>

\* the locals of a call: caught is the value the catch block received,
\* text is the body text the reader delivered, decoded says that
\* parseResponseData returned, data is what it returned, mutated says that
\* the interceptor changed the headers object it was given; resp is the
\* variable response, raw the response fetch resolved with and returned
\* the response the afterResponse interceptor returned; names is the
\* paramNames of replacePath
IdleCall ==
  [pc |-> "idle", opts |-> NoOptions, url |-> <<>>, init |-> NoInit,
   names |-> <<>>, mutated |-> FALSE, raw |-> NoResponse, returned |-> NoResponse,
   resp |-> NoResponse, reader |-> "", text |-> NoText, decoded |-> FALSE,
   data |-> Undefined, caught |-> NoError]

\* JSON.stringify(body)
JSONStringify(body) == <<"json", body[2]>>

\* lines 58-70: the path after replacePath and the query string
FinalPath(path, query) ==
  IF query.def /\ buildQueryString(query) # <<>>
    THEN path \o (IF Includes(path, "?") THEN <<"&">> ELSE <<"?">>)
              \o buildQueryString(query)
    ELSE path

\* a requestInit that is given the default headers object itself when
\* there is no header to add
HeadersObjectShared(defaultHeaders, opts) ==
  IF opts.body = Undefined THEN "config" ELSE "call"

\* lines 75-78: the headers of the requestInit are an object literal that
\* spreads the default headers, a new object for every call
HeadersObject(defaultHeaders, opts) == "call"

\* lines 72-80: the initial requestInit
InitialRequestInit(defaultHeaders, opts) ==
  [method |-> opts.method,
   headers |-> defaultHeaders \cup
                 (IF opts.body # Undefined THEN {ContentTypeHeader} ELSE {}),
   headersOf |-> HeadersObject(defaultHeaders, opts),
   signal |-> opts.signal,
   body |-> Undefined]

\* lines 83-86: the call carries a body and its method admits one
SendsBody(opts) ==
  opts.body # Undefined /\ opts.method \in {"POST", "PUT", "PATCH"}

\* body validation applied to POST only
BodyRejectedPostOnly(opts) ==
  /\ opts.body # Undefined /\ opts.method = "POST"
  /\ opts.bodySchema /\ ~SafeParse(opts.body).success

\* lines 88-97: the body is validated and the schema rejects it
BodyRejected(opts) ==
  SendsBody(opts) /\ opts.bodySchema /\ ~SafeParse(opts.body).success

\* lines 58-70: the stages that build the url; buildQueryString is called
\* when a query was given
URLStages(opts) ==
  <<"replacePath">>
    \o (IF opts.query.def THEN <<"buildQueryString">> ELSE <<>>)
    \o <<"url">>

\* a fetcher that validates the body before it substitutes the path
BuildValidatingFirst(config, opts) ==
  LET replaced == replacePath(opts.path, opts.params)
      init == InitialRequestInit(config.headers, opts)
  IN IF BodyRejected(opts)
       THEN [thrown |-> TRUE,
             error |-> ValidationError(SafeParse(opts.body).error),
             url |-> <<>>, init |-> NoInit,
             stages |-> <<"bodySchema.safeParse">>]
     ELSE IF replaced.thrown
       THEN [thrown |-> TRUE,
             error |-> NativeError("Error",
                         <<"Missing required path parameter: ",
                           replaced.missing>>),
             url |-> <<>>, init |-> NoInit,
             stages |-> (IF SendsBody(opts) /\ opts.bodySchema
                           THEN <<"bodySchema.safeParse">> ELSE <<>>)
                          \o <<"replacePath">>]
     ELSE [thrown |-> FALSE, error |-> NoError,
           url |-> config.baseURL \o FinalPath(replaced.path, opts.query),
           init |-> IF SendsBody(opts)
                      THEN [init EXCEPT !.body = JSONStringify(opts.body)]
                      ELSE init,
           stages |-> (IF SendsBody(opts) /\ opts.bodySchema
                         THEN <<"bodySchema.safeParse">> ELSE <<>>)
                        \o URLStages(opts)]

\* lines 58-99: the synchronous part of fetcher up to the interceptor; the
\* stages it ran, and either the value it threw or the url and requestInit
Build(config, opts) ==
  LET replaced == replacePath(opts.path, opts.params)
      init == InitialRequestInit(config.headers, opts)
  IN IF replaced.thrown
       THEN [thrown |-> TRUE,
             error |-> NativeError("Error",
                         <<"Missing required path parameter: ",
                           replaced.missing>>),
             url |-> <<>>, init |-> NoInit,
             stages |-> <<"replacePath">>]
     ELSE IF SendsBody(opts) /\ opts.bodySchema /\ ~opts.bodySchemaSafeParse
       THEN [thrown |-> TRUE, error |-> NotAFunction("bodySchema.safeParse"),
             url |-> <<>>, init |-> NoInit, stages |-> URLStages(opts)]
     ELSE IF BodyRejected(opts)
       THEN [thrown |-> TRUE,
             error |-> ValidationError(SafeParse(opts.body).error),
             url |-> <<>>, init |-> NoInit,
             stages |-> URLStages(opts) \o <<"bodySchema.safeParse">>]
     ELSE [thrown |-> FALSE, error |-> NoError,
           url |-> config.baseURL \o FinalPath(replaced.path, opts.query),
           init |-> IF SendsBody(opts)
                      THEN [init EXCEPT !.body = JSONStringify(opts.body)]
                      ELSE init,
           stages |-> URLStages(opts)
                        \o (IF SendsBody(opts) /\ opts.bodySchema
                              THEN <<"bodySchema.safeParse">> ELSE <<>>)]

\* line 108: fetch(url, requestInit) is invoked; the record keeps whether
\* the signal of the call was already aborted at that moment
InvokeFetch(c, earlier, url, init, stages) ==
  /\ sent' = Append(earlier,
                    [url |-> url, init |-> init,
                     cancelled |-> c.opts.signal # "none" /\ aborted'])
  /\ trace' = stages \o <<"fetch">>
  /\ call' = [c EXCEPT !.pc = "fetch", !.url = url, !.init = init]

\* the call ends: the promise settles
Settle(c, result, stages) ==
  /\ outcome' = result
  /\ trace' = stages
  /\ call' = [c EXCEPT !.pc = "done"]

\* lines 144-159: a value thrown inside the try block reaches the catch
\* block and the call ends with what the block throws
Catch(c, e, stages) ==
  Settle([c EXCEPT !.caught = e], Rejected(CatchBlock(e)), stages)

\* fetcher(path, options) up to its first await
Fetcher(opts, preAborted) ==
  /\ call.pc = "idle"
  /\ aborted' = (opts.signal # "none" /\ preAborted)
  /\ LET b == Build(fcfg, opts)
         c == [IdleCall EXCEPT
                 !.opts = opts,
                 !.names = IF opts.params.def
                             THEN extractParamNames(opts.path) ELSE <<>>]
     IN IF b.thrown
          THEN /\ Settle(c, Rejected(b.error), b.stages)
               /\ sent' = <<>>
        ELSE IF fcfg.beforeRequest
          THEN /\ call' = [c EXCEPT !.pc = "before", !.url = b.url,
                                    !.init = b.init]
               /\ trace' = b.stages \o <<"beforeRequest">>
               /\ outcome' = Pending
               /\ sent' = <<>>
        ELSE /\ InvokeFetch(c, <<>>, b.url, b.init, b.stages)
             /\ outcome' = Pending
  /\ UNCHANGED <<suspended, setup, kcall, fcfg>>

\* the fetcher called directly
Call(opts, preAborted) ==
  /\ Fetcher(opts, preAborted)
  /\ UNCHANGED <<hook, invalidations>>

\* what a beforeRequest interceptor returns for the requestInit it got:
\* the same object, a copy with a header added, or a RequestInit built
\* anew from method, headers and body
BeforeResults(init) ==
  { init,
    [init EXCEPT !.headers = @ \cup {"Authorization"}, !.headersOf = "call"],
    [method |-> init.method, headers |-> init.headers \cup {"Authorization"},
     headersOf |-> "call", signal |-> "none", body |-> init.body] }

\* line 103: the interceptor adds a header to the headers object of the
\* requestInit it was given; the default headers change with it when that
\* object is the headers object of the config
BeforeRequestMutates ==
  /\ call.pc = "before"
  /\ ~call.mutated
  /\ call' = [call EXCEPT !.mutated = TRUE,
                          !.init.headers = @ \cup {"Authorization"}]
  /\ fcfg' = IF call.init.headersOf = "config"
               THEN [fcfg EXCEPT !.headers = @ \cup {"Authorization"}]
               ELSE fcfg
  /\ UNCHANGED <<suspended, setup, kcall, hook, invalidations, aborted, sent, trace,
                 outcome>>

\* line 103 resumes: the interceptor returned, fetch is invoked
BeforeRequestReturns(result) ==
  /\ call.pc = "before"
  /\ result \in BeforeResults(call.init)
  /\ aborted' = aborted
  /\ InvokeFetch(call, sent, call.url, result, trace)
  /\ UNCHANGED <<suspended, setup, kcall, hook, invalidations, fcfg, outcome>>

\* what a user-supplied interceptor may throw: an Error, or an object
\* shaped like an APIError
UserError == NativeError("Error", <<"interceptor failed">>)

UserAPIError == APIError(401, "Unauthorized", <<"interceptor rejected">>, Undefined)

\* a fetcher whose try block encloses the beforeRequest interceptor
BeforeRequestThrowsCaught(e) ==
  /\ call.pc = "before"
  /\ Catch(call, e, trace)
  /\ UNCHANGED <<suspended, setup, kcall, hook, invalidations, fcfg, aborted, sent>>

\* line 103: the interceptor threw or rejected, outside the try block
BeforeRequestThrows(e) ==
  /\ call.pc = "before"
  /\ Settle(call, Rejected(e), trace)
  /\ UNCHANGED <<suspended, setup, kcall, hook, invalidations, fcfg, aborted, sent>>

(***************************************************************************)
(* The transport and the response                                          *)
(***************************************************************************)
Response(status, statusText, ctype) ==
  [ok |-> status \in 200..299, status |-> status, statusText |-> statusText,
   ctype |-> ctype]

\* the content-type header of a response: JSON, or no header
ContentTypes == {"application/json", "none"}

Responses ==
  {Response(200, "OK", ct) : ct \in ContentTypes}
    \cup {Response(404, "Not Found", ct) : ct \in ContentTypes}

\* the text of a response body: empty, the JSON text of GoodValue or of
\* BadValue, or a text that is not JSON
BodyTexts == {<<"text", "">>, <<"text", "good">>, <<"text", "bad">>,
              <<"text", "garbage">>}

\* JSON.parse(text)
JSONParse(text) ==
  IF text[2] \in {"good", "bad"}
    THEN [thrown |-> FALSE, value |-> <<"value", text[2]>>]
    ELSE [thrown |-> TRUE, value |-> Undefined]

SyntaxError == NativeError("SyntaxError", <<"Unexpected token">>)

\* parseResponseData once the body has been read as text by the reader the
\* content type selected: the decoded value, or the value thrown
Decode(reader, text) ==
  IF reader = "json"
    THEN IF JSONParse(text).thrown
           THEN [thrown |-> TRUE, value |-> Undefined]
           ELSE [thrown |-> FALSE, value |-> JSONParse(text).value]
  ELSE IF text[2] # ""
    THEN IF JSONParse(text).thrown
           THEN [thrown |-> FALSE, value |-> text]
           ELSE [thrown |-> FALSE, value |-> JSONParse(text).value]
  ELSE [thrown |-> FALSE, value |-> Undefined]

\* fetcher returning the decoded value instead of the schema's output
AfterDecodeRaw(opts, resp, data) ==
  IF ~resp.ok
    THEN [thrown |-> TRUE,
          error |-> APIError(resp.status, resp.statusText,
                             <<"HTTP ", resp.status, ": ", resp.statusText>>,
                             data),
          value |-> Undefined, validated |-> FALSE]
  ELSE IF opts.schema /\ ~SafeParse(data).success
    THEN [thrown |-> TRUE,
          error |-> ValidationError(SafeParse(data).error),
          value |-> Undefined, validated |-> TRUE]
  ELSE [thrown |-> FALSE, error |-> NoError, value |-> data,
        validated |-> opts.schema]

\* lines 116-143 after the body was decoded to data: the value thrown or
\* returned, and whether the response schema was applied
AfterDecode(opts, resp, data) ==
  IF ~resp.ok
    THEN [thrown |-> TRUE,
          error |-> APIError(resp.status, resp.statusText,
                             <<"HTTP ", resp.status, ": ", resp.statusText>>,
                             data),
          value |-> Undefined, validated |-> FALSE]
  ELSE IF opts.schema /\ ~opts.schemaSafeParse
    THEN [thrown |-> TRUE, error |-> NotAFunction("schema.safeParse"),
          value |-> Undefined, validated |-> FALSE]
  ELSE IF opts.schema
    THEN IF SafeParse(data).success
           THEN [thrown |-> FALSE, error |-> NoError,
                 value |-> SafeParse(data).data, validated |-> TRUE]
           ELSE [thrown |-> TRUE,
                 error |-> ValidationError(SafeParse(data).error),
                 value |-> Undefined, validated |-> TRUE]
  ELSE [thrown |-> FALSE, error |-> NoError, value |-> data,
        validated |-> FALSE]

\* lines 116-128 and 267-273: parseResponseData is entered for the final
\* response and starts to read the body
StartRead(c, resp, stages) ==
  /\ call' = [c EXCEPT !.pc = "read", !.resp = resp,
                !.reader = IF resp.ctype = "application/json"
                             THEN "json" ELSE "text"]
  /\ trace' = stages \o <<"parseResponseData">>

\* the signal handed to fetch has been aborted
TransportAborted == call.init.signal # "none" /\ aborted

\* controller.abort() by the owner of the signal while the call runs
Abort ==
  /\ call.pc \in {"before", "fetch", "after", "read"}
  /\ call.opts.signal # "none"
  /\ ~aborted
  /\ aborted' = TRUE
  /\ UNCHANGED <<suspended, setup, kcall, hook, invalidations, fcfg, call, sent, trace, outcome>>

\* line 108 resumes: fetch resolved with a response
FetchResolves(resp) ==
  /\ call.pc = "fetch"
  /\ ~TransportAborted
  /\ IF fcfg.afterResponse
       THEN /\ call' = [call EXCEPT !.pc = "after", !.raw = resp,
                                    !.resp = resp]
            /\ trace' = trace \o <<"afterResponse">>
       ELSE StartRead([call EXCEPT !.raw = resp], resp, trace)
  /\ UNCHANGED <<suspended, setup, kcall, hook, invalidations, fcfg, aborted, sent, outcome>>

\* a fetcher that sends the request once more when fetch rejected
FetchRejectsRetrying(e) ==
  /\ call.pc = "fetch"
  /\ e = AbortError => TransportAborted
  /\ IF Len(sent) < 2
       THEN /\ InvokeFetch(call, sent, call.url, call.init,
                           SubSeq(trace, 1, Len(trace) - 1))
            /\ UNCHANGED outcome
       ELSE Catch(call, e, trace)
  /\ UNCHANGED <<suspended, setup, kcall, hook, invalidations, fcfg, aborted>>

\* line 108: fetch rejected, with an AbortError when its signal is aborted
\* and with a TypeError when the network failed
FetchRejects(e) ==
  /\ call.pc = "fetch"
  /\ e = AbortError => TransportAborted
  /\ Catch(call, e, trace)
  /\ UNCHANGED <<suspended, setup, kcall, hook, invalidations, fcfg, aborted, sent>>

\* what an afterResponse interceptor returns: the response it got or
\* another response
AfterResults(resp) == {resp} \cup {r \in Responses : r.ctype = resp.ctype}

\* a fetcher that drops what the interceptor returned
AfterResponseReturnsDropped(resp) ==
  /\ call.pc = "after"
  /\ resp \in AfterResults(call.resp)
  /\ StartRead([call EXCEPT !.returned = resp], call.raw, trace)
  /\ UNCHANGED <<suspended, setup, kcall, hook, invalidations, fcfg, aborted, sent, outcome>>

\* line 112 resumes: the interceptor returned
AfterResponseReturns(resp) ==
  /\ call.pc = "after"
  /\ resp \in AfterResults(call.resp)
  /\ StartRead([call EXCEPT !.returned = resp], resp, trace)
  /\ UNCHANGED <<suspended, setup, kcall, hook, invalidations, fcfg, aborted, sent, outcome>>

\* line 112: the interceptor threw or rejected, inside the try block
AfterResponseThrows(e) ==
  /\ call.pc = "after"
  /\ Catch(call, e, trace)
  /\ UNCHANGED <<suspended, setup, kcall, hook, invalidations, fcfg, aborted, sent>>

\* response.json() or response.text() delivered the body text; the rest of
\* fetcher runs to its end
ReadBody(text) ==
  /\ call.pc = "read"
  /\ ~TransportAborted
  /\ LET d == Decode(call.reader, text)
         r == AfterDecode(call.opts, call.resp, d.value)
         c == [call EXCEPT !.text = text, !.decoded = TRUE, !.data = d.value]
         stages == trace \o (IF r.validated THEN <<"schema.safeParse">>
                             ELSE <<>>)
     IN IF d.thrown
          THEN Catch([call EXCEPT !.text = text], SyntaxError, trace)
        ELSE IF r.thrown THEN Catch(c, r.error, stages)
        ELSE Settle(c, Resolved(r.value), stages)
  /\ UNCHANGED <<suspended, setup, kcall, hook, invalidations, fcfg, aborted, sent>>

\* reading the body failed: the stream broke or the signal was aborted
ReadFails(e) ==
  /\ call.pc = "read"
  /\ e = AbortError => TransportAborted
  /\ Catch(call, e, trace)
  /\ UNCHANGED <<suspended, setup, kcall, hook, invalidations, fcfg, aborted, sent>>

\* the caller has consumed the settled promise; the fetcher keeps nothing
\* of a finished call
Return ==
  /\ call.pc = "done"
  /\ hook.kind = "none"
  /\ call' = IdleCall
  /\ aborted' = FALSE
  /\ sent' = <<>>
  /\ trace' = <<>>
  /\ outcome' = NoOutcome
  /\ UNCHANGED <<suspended, setup, kcall, hook, invalidations, fcfg>>

(***************************************************************************)
(* Inputs of the fetcher                                                   *)
(***************************************************************************)
Param(name, value) == [k |-> name, v |-> value]

Template(path, params) == [path |-> path, params |-> params]

\* path templates with the params objects passed for them: no token; a
\* token and no params object, an empty one, a complete one; two tokens
\* with both parameters missing, the second missing, and both present; a
\* token that occurs twice; a value that holds the text of a later token;
\* a value that holds a replacement pattern; two tokens in one segment and
\* a ':' that starts no identifier
PathCases ==
  { Template(<<"/", "u">>, NoObject),
    Template(<<"/", "u", "/", ":", "a">>, NoObject),
    Template(<<"/", "u", "/", ":", "a">>, [def |-> TRUE, ents |-> <<>>]),
    Template(<<"/", "u", "/", ":", "a">>,
             [def |-> TRUE, ents |-> <<Param(<<"a">>, StrVal(<<"1">>))>>]),
    Template(<<"/", ":", "a", "/", ":", "b">>, [def |-> TRUE, ents |-> <<>>]),
    Template(<<"/", ":", "a", "/", ":", "b">>,
             [def |-> TRUE, ents |-> <<Param(<<"a">>, StrVal(<<"1">>))>>]),
    Template(<<"/", ":", "a", "/", ":", "b">>,
             [def |-> TRUE, ents |-> <<Param(<<"b">>, NumVal(2)),
                                       Param(<<"a">>, StrVal(<<"1">>))>>]),
    Template(<<"/", ":", "a", "/", ":", "a">>,
             [def |-> TRUE, ents |-> <<Param(<<"a">>, StrVal(<<"1">>))>>]),
    Template(<<"/", ":", "a", "/", ":", "b">>,
             [def |-> TRUE, ents |-> <<Param(<<"a">>, StrVal(<<":", "b">>)),
                                       Param(<<"b">>, NumVal(2))>>]),
    Template(<<"/", "u", "/", ":", "a">>,
             [def |-> TRUE,
              ents |-> <<Param(<<"a">>, StrVal(<<"$", "&">>))>>]),
    Template(<<"/", ":", "a", "-", ":", "b", "/", "u", ":", "1">>,
             [def |-> TRUE, ents |-> <<Param(<<"a">>, StrVal(<<"1">>)),
                                       Param(<<"b">>, NumVal(2))>>]) }

RequestQueries ==
  { NoObject,
    [def |-> TRUE, ents |-> <<Param(<<"a">>, Undefined)>>],
    [def |-> TRUE, ents |-> <<Param(<<"a">>, StrVal(<<"1">>)),
                              Param(<<"b">>, NumVal(2))>>] }

Bodies == {Undefined, GoodValue, BadValue}

Options(t, method, query, body, signal, schema, bodySchema) ==
  [path |-> t.path, method |-> method, params |-> t.params, query |-> query,
   body |-> body, signal |-> signal, schema |-> schema,
   bodySchema |-> bodySchema, schemaSafeParse |-> schema,
   bodySchemaSafeParse |-> bodySchema]

\* calls that vary the path, the params and the query
AddressingOptions ==
  { Options(t, method, query, body, "none", FALSE, TRUE) :
      t \in PathCases, method \in {"GET", "POST"}, query \in RequestQueries,
      body \in {Undefined, BadValue} }

\* calls that vary the method, the body, the schemas and the signal
PipelineOptions ==
  { Options(Template(<<"/", "u", "/", ":", "a">>,
                     [def |-> TRUE,
                      ents |-> <<Param(<<"a">>, StrVal(<<"1">>))>>]),
            method, NoObject, body, signal, schema, bodySchema) :
      method \in Methods, body \in Bodies, signal \in {"none", CallerSignal},
      schema \in BOOLEAN, bodySchema \in BOOLEAN }

\* query objects with arrays, null, a nested object and values that need
\* escaping
SerializerQueries ==
  { [def |-> TRUE, ents |-> <<>>],
    [def |-> TRUE, ents |-> <<Param(<<"a">>, Null)>>],
    [def |-> TRUE, ents |-> <<Param(<<"a">>, Undefined),
                              Param(<<"b">>, Null)>>],
    [def |-> TRUE, ents |-> <<Param(<<"a">>, Arr(<<>>))>>],
    [def |-> TRUE, ents |-> <<Param(<<"a">>, Arr(<<Null>>))>>],
    [def |-> TRUE,
     ents |-> <<Param(<<"a">>, Arr(<<StrVal(<<"1">>), StrVal(<<"2">>)>>))>>],
    [def |-> TRUE,
     ents |-> <<Param(<<"b">>, StrVal(<<"1">>)),
                Param(<<"a">>, Arr(<<StrVal(<<"2">>), NumVal(1)>>))>>],
    [def |-> TRUE,
     ents |-> <<Param(<<"b">>, StrVal(<<"1">>)),
                Param(<<"a">>, Arr(<<StrVal(<<"2">>), Null,
                                     StrVal(<<"1">>)>>))>>],
    [def |-> TRUE,
     ents |-> <<Param(<<"a">>, Obj(<<Param(<<"b">>, StrVal(<<"1">>))>>)),
                Param(<<"b">>, StrVal(<<"a", " ", "/", "b">>))>>] }

\* GET calls that vary the query
QueryOptions ==
  { Options(Template(<<"/", "u">>, NoObject), "GET", query, Undefined,
            "none", FALSE, FALSE) : query \in SerializerQueries }

FetchOptions == AddressingOptions \cup PipelineOptions \cup QueryOptions

\* lines 33-38: the config of createFetcher() called without argument
DefaultFetchConfig ==
  [baseURL |-> <<>>, headers |-> {}, beforeRequest |-> FALSE,
   afterResponse |-> FALSE]

\* the FetchConfig values createFetcher is given
FetchConfigs ==
  {DefaultFetchConfig}
    \cup [baseURL : {<<"/", "b">>}, headers : {{"X-Default"}},
          beforeRequest : BOOLEAN, afterResponse : BOOLEAN]

\* the ep field of a hook that is not in use
NoEndpoint == Endpoint("", "", FALSE, "", <<>>, FALSE, FALSE, FALSE)

\* params is the params argument the hook or helper was given
NoHook ==
  [kind |-> "none", stage |-> "idle", ep |-> NoEndpoint, params |-> NoObject,
   key |-> <<>>, onSuccess |-> FALSE]

\* the locals of a fetcher call that is not running, with the signal, the
\* requests, the stages and the promise that belong to it
Context(c, a, s, t, o) ==
  [call |-> c, aborted |-> a, sent |-> s, trace |-> t, outcome |-> o]

IdleContext == Context(IdleCall, FALSE, <<>>, <<>>, NoOutcome)

InitFetch ==
  /\ suspended = IdleContext
  /\ setup = createQueryAPI(ConfigObject)
  /\ hook = NoHook
  /\ invalidations = <<>>
  /\ fcfg \in FetchConfigs
  /\ call = IdleCall
  /\ aborted = FALSE
  /\ sent = <<>>
  /\ trace = <<>>
  /\ outcome = NoOutcome

(***************************************************************************)
(* Generated hooks (createHooks) and invalidation helpers                  *)
(***************************************************************************)
\* queryClient.invalidateQueries({ queryKey }); auto says that the call was
\* made by the onSuccess of a generated mutation hook
Invalidation(queryKey, auto) == [queryKey |-> queryKey, auto |-> auto]

\* lines 643-659 of createUseMutationHook: the invalidations onSuccess
\* issues for the method of the endpoint
AutoInvalidation(method, group) ==
  IF method = "POST" THEN <<Invalidation(<<group>>, TRUE)>>
  ELSE IF method = "PUT" \/ method = "PATCH"
    THEN <<Invalidation(<<group>>, TRUE)>>
  ELSE IF method = "DELETE" THEN <<Invalidation(<<group>>, TRUE)>>
  ELSE <<>>

\* the arguments useQuery hooks are called with
HookArgs ==
  { NoObject,
    [def |-> TRUE, ents |-> <<Param(<<"a">>, StrVal(<<"1">>))>>],
    [def |-> TRUE, ents |-> <<Param(<<"b">>, NumVal(2)),
                              Param(<<"a">>, StrVal(<<"1">>))>>] }

\* lines 560-584 of createUseQueryHook: params and query from the
\* positional arguments
HookParams(ep, arg1, arg2) ==
  IF Includes(ep.path, ":") THEN arg1 ELSE NoObject

HookQuery(ep, arg1, arg2) ==
  IF Includes(ep.path, ":") /\ ep.querySchema THEN arg2
  ELSE IF ep.querySchema THEN arg1
  ELSE NoObject

\* a query hook that registers its query under the key of the params alone
UseQueryKeyedByParams(ep, arg1, arg2) ==
  /\ hook.kind = "none"
  /\ ApiHasEndpoint(Config, ep)
  /\ ep.method = "GET"
  /\ hook' = [kind |-> "query", stage |-> "running", ep |-> ep,
              params |-> HookParams(ep, arg1, arg2),
              key |-> KeyFn(ep, HookParams(ep, arg1, arg2), NoObject),
              onSuccess |-> FALSE]
  /\ Fetcher(Options(Template(ep.path, HookParams(ep, arg1, arg2)),
                     ep.method, HookQuery(ep, arg1, arg2), Undefined,
                     CallerSignal, ep.schema, FALSE),
             FALSE)
  /\ UNCHANGED invalidations

\* api.<group>.<endpoint>.useQuery(arg1, arg2): the key is computed, the
\* query is registered and its queryFn calls the fetcher with the signal
\* of the query
UseQuery(ep, arg1, arg2) ==
  /\ hook.kind = "none"
  /\ ApiHasEndpoint(Config, ep)
  /\ ep.method = "GET"
  /\ hook' = [kind |-> "query", stage |-> "running", ep |-> ep,
              params |-> HookParams(ep, arg1, arg2),
              key |-> KeyFn(ep, HookParams(ep, arg1, arg2),
                            HookQuery(ep, arg1, arg2)),
              onSuccess |-> FALSE]
  /\ Fetcher(Options(Template(ep.path, HookParams(ep, arg1, arg2)),
                     ep.method, HookQuery(ep, arg1, arg2), Undefined,
                     CallerSignal, ep.schema, FALSE),
             FALSE)
  /\ UNCHANGED invalidations

\* the queryFn settled
QuerySettles ==
  /\ hook.kind = "query" /\ hook.stage = "running"
  /\ call.pc = "done"
  /\ hook' = [hook EXCEPT !.stage = "settled"]
  /\ UNCHANGED <<suspended, setup, kcall, fcfg, call, aborted, sent, trace, outcome,
                 invalidations>>

\* the variables mutate is called with: params and body, each optional
MutationVariables ==
  [params : { NoObject, [def |-> TRUE, ents |-> <<>>],
              [def |-> TRUE, ents |-> <<Param(<<"a">>, StrVal(<<"1">>))>>] },
   body : Bodies]

\* api.<group>.<endpoint>.useMutation(options).mutate(variables): the
\* mutationFn calls the fetcher; onSuccess says whether options.onSuccess
\* was given
Mutate(ep, variables, onSuccess) ==
  /\ hook.kind = "none"
  /\ ApiHasEndpoint(Config, ep)
  /\ ep.method # "GET"
  /\ hook' = [kind |-> "mutation", stage |-> "running", ep |-> ep,
              params |-> variables.params, key |-> <<>>,
              onSuccess |-> onSuccess]
  /\ Fetcher(Options(Template(ep.path, variables.params), ep.method,
                     NoObject, variables.body, "none", ep.schema,
                     ep.bodySchema),
             FALSE)
  /\ UNCHANGED invalidations

\* the mutationFn resolved: onSuccess of the hook runs, first the caller's
\* onSuccess when one was given, else the automatic invalidation
MutationSucceeds ==
  /\ hook.kind = "mutation" /\ hook.stage = "running"
  /\ call.pc = "done" /\ outcome.state = "resolved"
  /\ IF hook.onSuccess
       THEN /\ hook' = [hook EXCEPT !.stage = "onSuccess"]
            /\ UNCHANGED invalidations
       ELSE /\ hook' = [hook EXCEPT !.stage = "settled"]
            /\ invalidations' =
                 invalidations \o AutoInvalidation(hook.ep.method,
                                                   hook.ep.group)
  /\ UNCHANGED <<suspended, setup, kcall, fcfg, call, aborted, sent, trace, outcome>>

\* line 640 resumes: the caller's onSuccess returned
UserOnSuccessReturns ==
  /\ hook.kind = "mutation" /\ hook.stage = "onSuccess"
  /\ hook' = [hook EXCEPT !.stage = "settled"]
  /\ invalidations' =
       invalidations \o AutoInvalidation(hook.ep.method, hook.ep.group)
  /\ UNCHANGED <<suspended, setup, kcall, fcfg, call, aborted, sent, trace, outcome>>

\* line 640: the caller's onSuccess threw or rejected
UserOnSuccessThrows ==
  /\ hook.kind = "mutation" /\ hook.stage = "onSuccess"
  /\ hook' = [hook EXCEPT !.stage = "settled"]
  /\ UNCHANGED <<suspended, setup, kcall, fcfg, call, aborted, sent, trace, outcome,
                 invalidations>>

\* a mutation that invalidates when it settles with an error
MutationFailsInvalidating ==
  /\ hook.kind = "mutation" /\ hook.stage = "running"
  /\ call.pc = "done" /\ outcome.state = "rejected"
  /\ hook' = [hook EXCEPT !.stage = "settled"]
  /\ invalidations' =
       invalidations \o AutoInvalidation(hook.ep.method, hook.ep.group)
  /\ UNCHANGED <<suspended, setup, kcall, fcfg, call, aborted, sent, trace, outcome>>

\* the mutationFn rejected: onSuccess does not run
MutationFails ==
  /\ hook.kind = "mutation" /\ hook.stage = "running"
  /\ call.pc = "done" /\ outcome.state = "rejected"
  /\ hook' = [hook EXCEPT !.stage = "settled"]
  /\ UNCHANGED <<suspended, setup, kcall, fcfg, call, aborted, sent, trace, outcome,
                 invalidations>>

\* an invalidate helper that targets the whole group of its endpoint
InvalidateGroupWide(ep, params) ==
  /\ hook.kind = "none" /\ call.pc = "idle"
  /\ hook' = [kind |-> "invalidate", stage |-> "settled", ep |-> ep,
              params |-> params, key |-> <<>>, onSuccess |-> FALSE]
  /\ invalidations' = <<Invalidation(<<ep.group>>, FALSE)>>
  /\ UNCHANGED <<suspended, setup, kcall, fcfg, call, aborted, sent, trace, outcome>>

\* api.<group>.invalidate.<endpoint>(params), or api.<group>.invalidate(params)
\* for a direct endpoint
Invalidate(ep, params) ==
  /\ hook.kind = "none" /\ call.pc = "idle"
  /\ hook' = [kind |-> "invalidate", stage |-> "settled", ep |-> ep,
              params |-> params, key |-> <<>>, onSuccess |-> FALSE]
  /\ invalidations' = <<Invalidation(KeyFn(ep, params, NoObject), FALSE)>>
  /\ UNCHANGED <<suspended, setup, kcall, fcfg, call, aborted, sent, trace, outcome>>

\* api.<group>.invalidate.all() of the nested group of ep: the function of
\* the endpoint named all when the group has one, called without params,
\* else the function that targets the group
InvalidateAll(ep) ==
  /\ hook.kind = "none" /\ call.pc = "idle"
  /\ ~ep.direct
  /\ hook' = [kind |-> "invalidateAll", stage |-> "settled", ep |-> ep,
              params |-> NoObject, key |-> <<>>, onSuccess |-> FALSE]
  /\ invalidations' =
       IF InvalidateMember(Config, ep.group, "all") = "endpoint"
         THEN <<Invalidation(createKey(ep.group, "all", NoObject, NoObject),
                             FALSE)>>
         ELSE <<Invalidation(<<ep.group>>, FALSE)>>
  /\ UNCHANGED <<suspended, setup, kcall, fcfg, call, aborted, sent, trace, outcome>>

\* the hook or helper has settled and is used again
HookReturn ==
  /\ hook.stage = "settled"
  /\ hook' = NoHook
  /\ invalidations' = <<>>
  /\ call' = IdleCall
  /\ aborted' = FALSE
  /\ sent' = <<>>
  /\ trace' = <<>>
  /\ outcome' = NoOutcome
  /\ UNCHANGED <<suspended, setup, kcall, fcfg>>

\* the cache store: an invalidation with queryKey prefix marks stale every
\* entry whose key begins with prefix
PartialMatch(prefix, key) ==
  /\ Len(prefix) <= Len(key)
  /\ \A i \in 1..Len(prefix) : key[i] = prefix[i]

(***************************************************************************)
(* Creating the API: createQueryAPI on the configurations of its callers   *)
(***************************************************************************)
\* a field that an object literal leaves out
Absent == <<"absent">>

FieldUnless(k, v) == IF v = Absent THEN <<>> ELSE <<Field(k, v)>>

\* an object literal given as an endpoint, with any of its fields left out
\* or ill-typed
RawEndpoint(method, path, schema, bodySchema, querySchema) ==
  Obj(FieldUnless("method", method) \o FieldUnless("path", path)
        \o FieldUnless("schema", schema)
        \o FieldUnless("bodySchema", bodySchema)
        \o FieldUnless("querySchema", querySchema))

MethodValues ==
  {Absent, NumVal(1), StrVal(<<"GET">>), StrVal(<<"POST">>),
   StrVal(<<"DELETE">>), StrVal(<<"HEAD">>)}

PathValues ==
  {Absent, NumVal(1), StrVal(<<>>), StrVal(<<"u">>), StrVal(<<"/", "u">>)}

SchemaValues == {Absent, ZodSchema, ParseOnlySchema, PlainObject}

RawEndpoints ==
  {RawEndpoint(method, path, schema, bodySchema, querySchema) :
     method \in MethodValues, path \in PathValues, schema \in SchemaValues,
     bodySchema \in SchemaValues, querySchema \in SchemaValues}

\* the configurations createQueryAPI is called with: one endpoint in a
\* nested group, one endpoint at group level, a second endpoint after a
\* valid one and after one whose bodySchema is not a schema, and
\* configurations without endpoints
RawConfigs ==
  {Obj(<<Field("users", Obj(<<Field("list", e)>>))>>) : e \in RawEndpoints}
    \cup {Obj(<<Field("health", e)>>) : e \in RawEndpoints}
    \cup {Obj(<<Field("users",
                     Obj(<<Field("list", first), Field("get", e)>>))>>) :
            first \in {RawEndpoint(StrVal(<<"GET">>), StrVal(<<"/", "u">>),
                                   Absent, Absent, Absent),
                       RawEndpoint(StrVal(<<"POST">>), StrVal(<<"/", "u">>),
                                   Absent, PlainObject, Absent)},
            e \in {RawEndpoint(method, path, Absent, Absent, Absent) :
                     method \in MethodValues, path \in PathValues}}
    \cup {Obj(<<>>), Obj(<<Field("users", Obj(<<>>))>>),
          Obj(<<Field("users", Null)>>)}

\* createQueryAPI(config) is called
CreateQueryAPI(config) ==
  /\ setup.state = "none"
  /\ setup' = createQueryAPI(config)
  /\ UNCHANGED <<suspended, kcall, fcfg, call, aborted, sent, trace, outcome, hook,
                 invalidations>>

\* api.<group>.<endpoint>.key(params) on the API that was returned
ApiKey(ep, params) ==
  /\ setup.state = "created"
  /\ ep \in EndpointsOf(setup.config)
  /\ ApiHasEndpoint(EndpointsOf(setup.config), ep)
  /\ kcall' = [group |-> ep.group, endpoint |-> ep.name, params |-> params,
               query |-> NoObject, result |-> KeyFn(ep, params, NoObject)]
  /\ UNCHANGED <<suspended, setup, fcfg, call, aborted, sent, trace, outcome, hook,
                 invalidations>>

\* the object literal the configuration holds for an endpoint
RawEndpointOf(config, ep) ==
  IF ep.direct THEN Prop(config, ep.group)
  ELSE Prop(Prop(config, ep.group), ep.name)

\* the options the queryFn (GET) or the mutationFn of the hooks of an
\* endpoint hands to the fetcher: schema and bodySchema are the objects of
\* the configuration
HookOptions(config, ep, query, body) ==
  LET raw == RawEndpointOf(config, ep)
      opts == IF ep.method = "GET"
                THEN Options(Template(ep.path, NoObject), ep.method,
                             HookQuery(ep, query, NoObject), Undefined,
                             CallerSignal, ep.schema, FALSE)
                ELSE Options(Template(ep.path, NoObject), ep.method,
                             NoObject, body, "none", ep.schema,
                             ep.bodySchema)
  IN [opts EXCEPT
        !.schemaSafeParse = HasSafeParse(Prop(raw, "schema")),
        !.bodySchemaSafeParse =
           opts.bodySchema /\ HasSafeParse(Prop(raw, "bodySchema"))]

\* a hook of the API that was returned runs its queryFn or mutationFn
ApiFetch(ep, query, body) ==
  /\ setup.state = "created"
  /\ ep \in EndpointsOf(setup.config)
  /\ ApiHasEndpoint(EndpointsOf(setup.config), ep)
  /\ Fetcher(HookOptions(setup.config, ep, query, body), FALSE)
  /\ UNCHANGED <<hook, invalidations>>

\* the caller drops the API, or the Error it caught, once its calls have
\* settled
Dispose ==
  /\ setup.state # "none"
  /\ call.pc = "idle"
  /\ setup' = NoSetup
  /\ kcall' = NoKeyCall
  /\ UNCHANGED <<suspended, fcfg, call, aborted, sent, trace, outcome, hook,
                 invalidations>>

(***************************************************************************)
(* Specifications                                                          *)
(***************************************************************************)
Init == InitKeys /\ InitFetch

\* the key factory alone, with a fetcher created from the default config
InitKeyFactory == Init /\ fcfg = DefaultFetchConfig

\* the endpoints whose key function is called: the queries and the direct
\* endpoint
KeyEndpoints == {ep \in Config : ep.method = "GET" \/ ep.direct}

NextKeys ==
  \E ep \in KeyEndpoints, params \in OptObjects, query \in OptObjects :
    KeyCall(ep, params, query)

\* the fetcher called directly, one call at a time
Next ==
  \/ \E opts \in FetchOptions, preAborted \in BOOLEAN : Call(opts, preAborted)
  \/ BeforeRequestMutates
  \/ \E result \in BeforeResults(call.init) : BeforeRequestReturns(result)
  \/ \E e \in {UserError, UserAPIError} : BeforeRequestThrows(e)
  \/ Abort
  \/ \E resp \in Responses : FetchResolves(resp)
  \/ \E e \in {NetworkFailure, AbortError} : FetchRejects(e)
  \/ \E resp \in Responses : AfterResponseReturns(resp)
  \/ \E e \in {UserError, UserAPIError} : AfterResponseThrows(e)
  \/ \E text \in BodyTexts : ReadBody(text)
  \/ \E e \in {NetworkFailure, AbortError} : ReadFails(e)
  \/ Return

Spec == Init /\ [][Next]_vars

\* the steps of a fetcher call after its first await
PipelineStep ==
  \/ BeforeRequestMutates
  \/ \E result \in BeforeResults(call.init) : BeforeRequestReturns(result)
  \/ \E e \in {UserError, UserAPIError} : BeforeRequestThrows(e)
  \/ Abort
  \/ \E resp \in Responses : FetchResolves(resp)
  \/ \E e \in {NetworkFailure, AbortError} : FetchRejects(e)
  \/ \E resp \in Responses : AfterResponseReturns(resp)
  \/ \E e \in {UserError, UserAPIError} : AfterResponseThrows(e)
  \/ \E text \in BodyTexts : ReadBody(text)
  \/ \E e \in {NetworkFailure, AbortError} : ReadFails(e)

\* the generated API: hooks and invalidation helpers, one use at a time
NextHooks ==
  \/ \E ep \in Config, arg1 \in HookArgs, arg2 \in HookArgs :
       UseQuery(ep, arg1, arg2)
  \/ \E ep \in Config, variables \in MutationVariables,
         onSuccess \in BOOLEAN : Mutate(ep, variables, onSuccess)
  \/ PipelineStep
  \/ QuerySettles
  \/ MutationSucceeds
  \/ UserOnSuccessReturns
  \/ UserOnSuccessThrows
  \/ MutationFails
  \/ \E ep \in Config, params \in HookArgs : Invalidate(ep, params)
  \/ \E ep \in Config : InvalidateAll(ep)
  \/ HookReturn

SpecHooks == Init /\ [][NextHooks]_vars

SpecKeys == InitKeyFactory /\ [][NextKeys]_vars

\* createQueryAPI called on the configurations of RawConfigs, and the key
\* functions of the API it returns
InitSetup ==
  /\ suspended = IdleContext
  /\ setup = NoSetup
  /\ kcall = NoKeyCall
  /\ hook = NoHook
  /\ invalidations = <<>>
  /\ fcfg = DefaultFetchConfig
  /\ call = IdleCall
  /\ aborted = FALSE
  /\ sent = <<>>
  /\ trace = <<>>
  /\ outcome = NoOutcome

NextSetup ==
  \/ \E config \in RawConfigs : CreateQueryAPI(config)
  \/ /\ setup.state = "created"
     /\ \E ep \in EndpointsOf(setup.config), params \in HookArgs :
          ApiKey(ep, params)
  \/ /\ setup.state = "created"
     /\ \E ep \in EndpointsOf(setup.config), query \in HookArgs,
            body \in Bodies : ApiFetch(ep, query, body)
  \/ \E resp \in Responses : FetchResolves(resp)
  \/ FetchRejects(NetworkFailure)
  \/ \E text \in BodyTexts : ReadBody(text)
  \/ ReadFails(NetworkFailure)
  \/ Return
  \/ Dispose

SpecSetup == InitSetup /\ [][NextSetup]_vars

\* the call that is running
Running == Context(call, aborted, sent, trace, outcome)

\* the running call has reached an await, or has not started or has ended:
\* the event loop runs the other call from where it waited
Resume ==
  /\ suspended # Running
  /\ suspended' = Running
  /\ call' = suspended.call
  /\ aborted' = suspended.aborted
  /\ sent' = suspended.sent
  /\ trace' = suspended.trace
  /\ outcome' = suspended.outcome
  /\ UNCHANGED <<setup, kcall, fcfg, hook, invalidations>>

\* the fetcher of two calls in flight: both interceptors and a default
\* header
ConcurrentConfig ==
  [baseURL |-> <<"/", "b">>, headers |-> {"X-Default"},
   beforeRequest |-> TRUE, afterResponse |-> TRUE]

\* the calls made while another is in flight: a query with a response
\* schema and a mutation with a body and a body schema
ConcurrentOptions ==
  {o \in PipelineOptions :
     /\ o.signal = "none"
     /\ \/ o.method = "GET" /\ o.body = Undefined /\ o.schema /\ ~o.bodySchema
        \/ o.method = "POST" /\ o.body = GoodValue /\ ~o.schema /\ o.bodySchema}

\* the responses and the body texts the transport delivers to them
ConcurrentResponses == {r \in Responses : r.ctype = "application/json"}

ConcurrentTexts == {<<"text", "good">>, <<"text", "bad">>}

InitConcurrent == Init /\ fcfg = ConcurrentConfig

\* two fetcher calls and the key functions, interleaved at every await
NextConcurrent ==
  \/ \E opts \in ConcurrentOptions : Call(opts, FALSE)
  \/ BeforeRequestMutates
  \/ \E result \in BeforeResults(call.init) : BeforeRequestReturns(result)
  \/ BeforeRequestThrows(UserError)
  \/ \E resp \in ConcurrentResponses : FetchResolves(resp)
  \/ FetchRejects(NetworkFailure)
  \/ \E resp \in ConcurrentResponses : AfterResponseReturns(resp)
  \/ AfterResponseThrows(UserError)
  \/ \E text \in ConcurrentTexts : ReadBody(text)
  \/ ReadFails(NetworkFailure)
  \/ Resume
  \/ Return
  \/ \E ep \in {e \in KeyEndpoints : e.group = "posts"}, params \in HookArgs :
       KeyCall(ep, params, NoObject)

SpecConcurrent == InitConcurrent /\ [][NextConcurrent]_vars

(***************************************************************************)
(* Properties of the key factory                                           *)
(***************************************************************************)
\* the entries of an object, whatever their order
EntrySet(o) == {o[i] : i \in 1..Len(o)}

\* two optional objects with the same keys and the same value for every key
SetEqual(x, y) == x.def = y.def /\ EntrySet(x.ents) = EntrySet(y.ents)

\* the keys of an object are in strictly ascending order
KeysSorted(o) == \A i \in 1..(Len(o) - 1) : StrLess(o[i].k, o[i + 1].k)

\* the entries of an object whose value is not undefined
DefinedEntries(arg) == {e \in EntrySet(arg.ents) : e.v # Undefined}

\* C1: key determinism.  Two consecutive calls of the key function of one
\* endpoint whose params are set-equal and whose queries are set-equal
\* return equal keys, whatever the insertion order; and every object a key
\* holds lists its keys in sorted order.
KeyDeterminism ==
  [][ /\ (/\ kcall.result # <<>>
          /\ kcall'.group = kcall.group /\ kcall'.endpoint = kcall.endpoint
          /\ SetEqual(kcall.params, kcall'.params)
          /\ SetEqual(kcall.query, kcall'.query))
         => kcall'.result = kcall.result
      /\ \A i \in 3..Len(kcall'.result) : KeysSorted(kcall'.result[i]) ]_vars

\* a key computed from params inserted in descending key order and a query
\* inserted in descending key order, both listed in ascending order
WitnessKeyDeterminism ==
  /\ Len(kcall.result) = 4
  /\ Len(kcall.params.ents) = 2
  /\ StrLess(kcall.params.ents[2].k, kcall.params.ents[1].k)
  /\ Len(kcall.query.ents) = 2
  /\ StrLess(kcall.query.ents[2].k, kcall.query.ents[1].k)
  /\ Len(kcall.result[3]) = 2 /\ Len(kcall.result[4]) = 2
  /\ KeysSorted(kcall.result[3]) /\ KeysSorted(kcall.result[4])

\* C2: key shape.  A key is [group, endpoint], then the params object if
\* and only if params has an entry left once undefined values are dropped,
\* then the query object under the same condition.
KeyShape ==
  kcall.result # <<>> =>
    /\ kcall.result[1] = kcall.group
    /\ kcall.result[2] = kcall.endpoint
    /\ Len(kcall.result) =
         2 + (IF DefinedEntries(kcall.params) # {} THEN 1 ELSE 0)
           + (IF DefinedEntries(kcall.query) # {} THEN 1 ELSE 0)

(***************************************************************************)
(* Properties of the fetcher                                               *)
(***************************************************************************)
\* the tokens of the path of the call that the params object has no key for
MissingNames(opts) ==
  {n \in {extractParamNames(opts.path)[i] :
            i \in 1..Len(extractParamNames(opts.path))} :
     ~HasKey(opts.params.ents, n)}

\* a stage occurs in the trace of the call
Ran(stage) == \E i \in 1..Len(trace) : trace[i] = stage

\* C3: missing-parameter boundary.  A call made with a params object that
\* lacks a key for a token of its path template is rejected with the error
\* 'Missing required path parameter: <name>' for a missing name, no url is
\* built, and neither body validation, the beforeRequest interceptor nor
\* fetch is invoked.
MissingParameterBoundary ==
  (call.pc # "idle" /\ call.opts.params.def /\ MissingNames(call.opts) # {})
    => /\ call.pc = "done"
       /\ outcome.state = "rejected"
       /\ \E n \in MissingNames(call.opts) :
            outcome.error =
              NativeError("Error", <<"Missing required path parameter: ", n>>)
       /\ call.url = <<>>
       /\ sent = <<>>
       /\ ~Ran("bodySchema.safeParse") /\ ~Ran("beforeRequest")
       /\ ~Ran("fetch")

\* a POST with a body its schema rejects, made through a fetcher with a
\* beforeRequest interceptor, for the path /:a/:b with only a supplied:
\* rejected for the missing b
WitnessMissingParameter ==
  /\ call.pc = "done"
  /\ call.opts.path = <<"/", ":", "a", "/", ":", "b">>
  /\ Len(call.opts.params.ents) = 1
  /\ call.opts.method = "POST" /\ call.opts.body = BadValue
  /\ fcfg.beforeRequest
  /\ outcome.state = "rejected"
  /\ outcome.error.message = <<"Missing required path parameter: ", <<"b">>>>

\* the call is a POST, PUT or PATCH with a bodySchema and a body that the
\* schema rejects
SendsRejectedBody(opts) ==
  /\ opts.method \in {"POST", "PUT", "PATCH"}
  /\ opts.bodySchema
  /\ opts.body # Undefined
  /\ ~SafeParse(opts.body).success

\* C4 as stated: every POST, PUT or PATCH call with a bodySchema and a body
\* the schema rejects is rejected with a ValidationError, and neither the
\* beforeRequest interceptor nor fetch is invoked.
BodyValidationAlwaysRejects ==
  (call.pc # "idle" /\ SendsRejectedBody(call.opts))
    => /\ outcome.state = "rejected"
       /\ isValidationError(outcome.error)
       /\ sent = <<>>
       /\ ~Ran("beforeRequest")

\* C4 as amended: such a call never invokes the beforeRequest interceptor
\* nor fetch; it is rejected with a ValidationError unless path
\* substitution threw first, and then with the missing-parameter error.
BodyValidationBoundary ==
  (call.pc # "idle" /\ SendsRejectedBody(call.opts))
    => /\ call.pc = "done"
       /\ outcome.state = "rejected"
       /\ sent = <<>>
       /\ ~Ran("beforeRequest")
       /\ IF call.opts.params.def /\ MissingNames(call.opts) # {}
            THEN outcome.error.name = "Error"
            ELSE /\ isValidationError(outcome.error)
                 /\ outcome.error.type = "validation"
                 /\ Ran("bodySchema.safeParse")

\* a PATCH with a rejected body through a fetcher with a beforeRequest
\* interceptor, ended with a ValidationError
WitnessBodyValidation ==
  /\ call.pc = "done"
  /\ call.opts.method = "PATCH"
  /\ SendsRejectedBody(call.opts)
  /\ fcfg.beforeRequest
  /\ isValidationError(outcome.error)

\* C5: response validation.  Once a success response has been decoded: with
\* a schema the call resolves with the schema's normalized output when the
\* schema accepts the decoded value and is rejected with a ValidationError
\* when it does not; without a schema the call resolves with the decoded
\* value itself.
ResponseValidation ==
  (call.pc = "done" /\ call.decoded /\ call.resp.ok)
    => IF call.opts.schema
         THEN IF SafeParse(call.data).success
                THEN outcome = Resolved(SafeParse(call.data).data)
                ELSE /\ outcome.state = "rejected"
                     /\ isValidationError(outcome.error)
                     /\ outcome.error.errors = SafeParse(call.data).error
         ELSE outcome = Resolved(call.data)

\* a call with a schema resolved with a normalized value that differs from
\* the decoded value
WitnessResponseValidation ==
  /\ call.pc = "done"
  /\ call.opts.schema
  /\ call.decoded /\ call.data = GoodValue
  /\ outcome.state = "resolved"
  /\ outcome.value # call.data

\* C8: cancellation pre-check.  fetch is never invoked while the signal of
\* the call is already aborted.
CancellationPreCheck ==
  \A i \in 1..Len(sent) : ~sent[i].cancelled

\* C9: cancellation outcome.  A call that ends because fetch or the body
\* read threw the AbortError of its signal is not rejected with the
\* APIError of status 0 and status text 'Network Error'.
CancellationDistinct ==
  (call.pc = "done" /\ call.caught = AbortError)
    => ~(/\ isAPIError(outcome.error)
         /\ outcome.error.status = 0
         /\ outcome.error.statusText = "Network Error")

\* C10: handle forwarding.  Every invocation of fetch for a call made with
\* a signal receives that signal, with or without a beforeRequest
\* interceptor.
HandleForwarded ==
  \A i \in 1..Len(sent) :
    call.opts.signal # "none" => sent[i].init.signal = call.opts.signal

\* C11: network failure mapping.  A call that ended because fetch itself
\* threw or rejected is rejected with the APIError of status 0, status text
\* 'Network Error', the message of the failure and no data.
NetworkFailureMapping ==
  (call.pc = "done" /\ sent # <<>> /\ trace[Len(trace)] = "fetch")
    => /\ call.caught \in {NetworkFailure, AbortError}
       /\ outcome =
            Rejected(APIError(0, "Network Error", call.caught.message,
                              Undefined))

\* fetch invoked after a beforeRequest interceptor rejected with 'Failed to
\* fetch', and the call rejected with that message
WitnessNetworkFailure ==
  /\ call.pc = "done"
  /\ Ran("beforeRequest")
  /\ trace[Len(trace)] = "fetch"
  /\ call.caught = NetworkFailure
  /\ outcome.error.status = 0
  /\ outcome.error.message = <<"Failed to fetch">>

\* best-effort decoding of a body text: the structured value when the text
\* is JSON, else the raw text when there is one, else undefined
BestEffort(text) ==
  IF ~JSONParse(text).thrown THEN JSONParse(text).value
  ELSE IF text[2] # "" THEN text
  ELSE Undefined

\* C12: HTTP error mapping.  A call whose final response is outside the
\* success range and whose body text was delivered is rejected with the
\* APIError that carries the status and status text of the response, the
\* message 'HTTP <status>: <statusText>' and the best-effort decoded body,
\* whatever the body and the content type; the response schema is not
\* applied.
HTTPErrorMapping ==
  (call.pc = "done" /\ call.text # NoText /\ ~call.resp.ok)
    => /\ outcome =
            Rejected(APIError(call.resp.status, call.resp.statusText,
                              <<"HTTP ", call.resp.status, ": ",
                                call.resp.statusText>>,
                              BestEffort(call.text)))
       /\ ~Ran("schema.safeParse")

\* C22: no retries.  Within one call fetch is invoked at most once: a
\* request is sent only by a call that has sent none, before the call
\* awaits fetch, and whatever the outcome no step of the call sends again.
NoRetries ==
  [][/\ Len(sent') <= 1
     /\ (sent' # sent /\ sent' # <<>>)
          => (sent = <<>> /\ call.pc \in {"idle", "before"})]_vars

\* a call whose response body could not be decoded has ended rejected
\* with status 0 after one request
WitnessNoRetries ==
  /\ call.pc = "done" /\ Len(sent) = 1
  /\ outcome.state = "rejected"
  /\ call.caught = SyntaxError
  /\ outcome.error.status = 0

\* the stages of a call in pipeline order
StageOrder ==
  <<"replacePath", "buildQueryString", "url", "bodySchema.safeParse",
    "beforeRequest", "fetch", "afterResponse", "parseResponseData",
    "schema.safeParse">>

Rank(stage) == CHOOSE i \in 1..Len(StageOrder) : StageOrder[i] = stage

\* the stages that ran did so in pipeline order, each once, and none ran
\* without the stages it follows
StagesInOrder ==
  /\ \A i \in 1..Len(trace) : \E j \in 1..Len(StageOrder) :
        trace[i] = StageOrder[j]
  /\ \A i \in 1..(Len(trace) - 1) : Rank(trace[i]) < Rank(trace[i + 1])
  /\ Ran("bodySchema.safeParse") => Ran("url")
  /\ Ran("beforeRequest") => Ran("url")
  /\ Ran("fetch") => Ran("url") /\ (fcfg.beforeRequest => Ran("beforeRequest"))
  /\ Ran("afterResponse") => Ran("fetch") /\ call.pc # "fetch"
  /\ Ran("parseResponseData")
       => /\ Ran("fetch") /\ call.pc \notin {"fetch", "after"}
          /\ fcfg.afterResponse => Ran("afterResponse")
  /\ Ran("schema.safeParse") => Ran("parseResponseData") /\ call.decoded

\* the stage in which a rejected call failed
FailedStage ==
  IF isValidationError(outcome.error)
    THEN IF sent = <<>> THEN "bodySchema.safeParse" ELSE "schema.safeParse"
  ELSE IF call.caught # NoError
    THEN IF Ran("parseResponseData") THEN "parseResponseData"
         ELSE IF Ran("afterResponse") THEN "afterResponse"
         ELSE "fetch"
  ELSE IF Ran("beforeRequest") THEN "beforeRequest"
  ELSE "replacePath"

\* C23: stage ordering.  The stages of a call run in the order url
\* building (path substitution, query string, url), body validation,
\* beforeRequest, fetch, afterResponse, status check and decoding, response
\* validation, each only after the stages before it have completed; a
\* call that is rejected has run no stage after the one that failed, and a
\* call that has ended runs no further stage.
StageOrdering ==
  /\ [](/\ StagesInOrder
        /\ (call.pc = "done" /\ outcome.state = "rejected")
             => trace[Len(trace)] = FailedStage)
  /\ [][call.pc = "done" => trace' \in {trace, <<>>}]_vars

\* a POST through both interceptors whose body and response the schemas
\* accept has run every stage but the query string, in order
WitnessStageOrdering ==
  /\ call.pc = "done" /\ outcome.state = "resolved"
  /\ trace = <<"replacePath", "url", "bodySchema.safeParse",
               "beforeRequest", "fetch", "afterResponse",
               "parseResponseData", "schema.safeParse">>

\* C25: body schema enforced on every body-admitting call.  A POST, PUT or
\* PATCH call with a bodySchema invokes fetch only after the schema was
\* applied to its body and accepted it, a call without body included.
BodySchemaEnforced ==
  (/\ sent # <<>>
   /\ call.opts.method \in {"POST", "PUT", "PATCH"}
   /\ call.opts.bodySchema)
    => /\ Ran("bodySchema.safeParse")
       /\ SafeParse(call.opts.body).success

\* C26: content-type header.  The requestInit a call builds, before any
\* interceptor has seen it, has the Content-Type header if and only if it
\* has a body, and without a body its headers are the default headers.
ContentTypeWithBody ==
  (call.url # <<>> /\ ~call.mutated
     /\ (call.pc = "before" \/ ~fcfg.beforeRequest))
    => /\ ContentTypeHeader \in call.init.headers
            <=> call.init.body # Undefined
       /\ call.init.body = Undefined => call.init.headers = fcfg.headers

\* C27: default headers are never changed by calls.  No step of a call
\* changes the default headers of the config, a step of an interceptor
\* that changes the headers object of its requestInit included, and every
\* call starts from the default headers, with the content type added when
\* it has a body.
DefaultHeadersKept ==
  [][/\ fcfg'.headers = fcfg.headers
     /\ (call.pc = "idle" /\ call'.url # <<>>)
          => call'.init.headers \ {ContentTypeHeader} = fcfg.headers]_vars

\* the request of a call went out with the header its interceptor added to
\* the headers object it was given, and the default headers lack it
WitnessDefaultHeadersKept ==
  /\ call.mutated
  /\ sent # <<>> /\ "Authorization" \in sent[1].init.headers
  /\ fcfg.headers = {"X-Default"}

\* the response the status check and the decoding of a call are to use:
\* what the afterResponse interceptor returned, the response of fetch when
\* no interceptor is configured
FinalResponse == IF fcfg.afterResponse THEN call.returned ELSE call.raw

\* C28: status is inspected on the interceptor's result.  Once the body of
\* a call was decoded, the reader was selected by the content type of the
\* final response; the call is rejected with an APIError holding the
\* status, the status text and the decoded body of the final response when
\* that response is not a success, and otherwise it resolves or is
\* rejected by the response schema; the final response is what the
\* afterResponse interceptor returned, and the response of fetch when no
\* interceptor is configured.
StatusFromInterceptorResult ==
  (call.pc = "done" /\ call.decoded)
    => /\ call.reader = (IF FinalResponse.ctype = "application/json"
                           THEN "json" ELSE "text")
       /\ call.data = Decode(call.reader, call.text).value
       /\ ~FinalResponse.ok
            => outcome =
                 Rejected(APIError(FinalResponse.status,
                                   FinalResponse.statusText,
                                   <<"HTTP ", FinalResponse.status, ": ",
                                     FinalResponse.statusText>>,
                                   call.data))
       /\ FinalResponse.ok
            => \/ outcome.state = "resolved"
               \/ call.opts.schema /\ isValidationError(outcome.error)

\* fetch resolved with a 404, the interceptor returned a 200 and the call
\* resolved
WitnessStatusFromInterceptorResult ==
  /\ call.pc = "done" /\ call.decoded
  /\ call.raw.status = 404 /\ call.returned.status = 200
  /\ outcome.state = "resolved"

\* C29: decode rule.  For a response whose body text was delivered: when
\* it is a success and its content type is JSON the body is decoded as
\* JSON, and the decoded value is the parsed text; for any other response
\* decoding yields the parsed text when the text parses, the raw text when
\* it does not, undefined when the text is empty, and the call does not
\* fail in decoding.
DecodeRule ==
  (call.pc = "done" /\ call.text # NoText)
    => IF call.resp.ok /\ call.resp.ctype = "application/json"
         THEN /\ call.reader = "json"
              /\ call.decoded <=> ~JSONParse(call.text).thrown
              /\ call.decoded => call.data = JSONParse(call.text).value
         ELSE /\ call.decoded
              /\ call.data = BestEffort(call.text)
              /\ call.caught # SyntaxError
              /\ (outcome.state = "resolved" /\ ~call.opts.schema)
                   => outcome.value = BestEffort(call.text)

\* the characters of s from position i up to the next '/' or the end
ToNextSlash(s, i) ==
  LET stops == {j \in i..Len(s) : s[j] = "/"}
  IN IF stops = {} THEN SubSeq(s, i, Len(s))
     ELSE SubSeq(s, i, (CHOOSE j \in stops : \A k \in stops : j <= k) - 1)

\* the names that follow a ':' and start like an identifier, each taken up
\* to the next '/' or the end of the template, from position i on
RECURSIVE SegmentTokens(_, _)
SegmentTokens(s, i) ==
  IF i > Len(s) THEN <<>>
  ELSE IF s[i] = ":" /\ i + 1 <= Len(s) /\ IsIdStart(s[i + 1])
    THEN <<ToNextSlash(s, i + 1)>>
           \o SegmentTokens(s, i + 1 + Len(ToNextSlash(s, i + 1)))
  ELSE SegmentTokens(s, i + 1)

\* the positions of a template where a ':' is followed by the first
\* character of an identifier
TokenStarts(s) ==
  {i \in 1..(Len(s) - 1) : s[i] = ":" /\ IsIdStart(s[i + 1])}

\* the k-th of these positions
NthStart(s, k) ==
  CHOOSE i \in TokenStarts(s) :
    Cardinality({j \in TokenStarts(s) : j < i}) = k - 1

\* the identifier after the ':' at position i: the longest run of letters,
\* digits and '_'
IdentifierAt(s, i) ==
  LET e == CHOOSE e \in (i + 1)..Len(s) :
             /\ \A j \in (i + 1)..e : IsIdChar(s[j])
             /\ e = Len(s) \/ ~IsIdChar(s[e + 1])
  IN SubSeq(s, i + 1, e)

HasToken(s, name) ==
  \E i \in 1..Len(s) : OccursAt(s, <<":">> \o name, i)

\* C33: no request with an unsubstituted token reaches the transport.  The
\* url of every request handed to fetch holds no ':name' token of the path
\* template of its call, a call made without params object included.
NoUnsubstitutedToken ==
  \A i \in 1..Len(sent) :
    \A k \in 1..Len(extractParamNames(call.opts.path)) :
      ~HasToken(sent[i].url, extractParamNames(call.opts.path)[k])

\* the call was rejected with the error of the last branch of the catch block
StatusZero ==
  /\ outcome.state = "rejected"
  /\ isAPIError(outcome.error)
  /\ outcome.error.status = 0
  /\ outcome.error.statusText = "Network Error"

\* C34: status 0 means the transport failed.  A call rejected with status 0
\* and 'Network Error' got no response from fetch, or lost the connection
\* while the body was read; a failure of the afterResponse interceptor or of
\* the decoding of a received body is never reported with status 0.
StatusZeroMeansTransportFailed ==
  StatusZero =>
    \/ call.raw = NoResponse
    \/ call.pc = "done" /\ call.caught \in {NetworkFailure, AbortError}

\* the call ended at the stage named: that stage is the last that ran
EndedAt(stage) ==
  call.pc = "done" /\ trace # <<>> /\ trace[Len(trace)] = stage

\* C38: interceptor failures surface and stop the pipeline.  A call whose
\* beforeRequest interceptor throws e is rejected with e itself and fetch
\* is not invoked; a call whose afterResponse interceptor throws is
\* rejected and nothing is decoded or validated; a call that ended at an
\* interceptor never resolved with a value.
InterceptorFailures ==
  /\ []((EndedAt("beforeRequest") \/ EndedAt("afterResponse"))
         => /\ outcome.state = "rejected"
            /\ ~call.decoded
            /\ ~Ran("parseResponseData") /\ ~Ran("schema.safeParse")
            /\ EndedAt("beforeRequest") => sent = <<>> /\ ~Ran("fetch"))
  /\ [][/\ \A e \in {UserError, UserAPIError} :
             BeforeRequestThrows(e)
               => /\ outcome' = Rejected(e)
                  /\ EndedAt("beforeRequest")'
        /\ \A e \in {UserError, UserAPIError} :
             AfterResponseThrows(e)
               => /\ outcome'.state = "rejected"
                  /\ EndedAt("afterResponse")']_vars

\* a call whose afterResponse interceptor threw an Error after fetch had
\* resolved, and that was rejected
WitnessInterceptorFailures ==
  /\ EndedAt("afterResponse")
  /\ call.caught = UserError
  /\ call.raw # NoResponse
  /\ outcome.state = "rejected"

\* two calls of a key function differ in their logical inputs: in the
\* entries of params that are not undefined, or in those of the query
LogicalInputsDiffer(a, b) ==
  \/ DefinedEntries(a.params) # DefinedEntries(b.params)
  \/ DefinedEntries(a.query) # DefinedEntries(b.query)

\* C35: keys separate path params from query params.  Two consecutive calls
\* of the key function of one endpoint whose logical inputs differ, an
\* object given once as params and once as query included, return
\* different keys.
KeySeparation ==
  [][(/\ kcall.result # <<>>
      /\ kcall'.group = kcall.group /\ kcall'.endpoint = kcall.endpoint
      /\ LogicalInputsDiffer(kcall, kcall'))
       => kcall'.result # kcall.result]_vars

\* the call failed at a schema that has no safeParse: with the TypeError of
\* the call of bodySchema.safeParse, or with what the catch block makes of
\* the TypeError of the call of schema.safeParse
SchemaFault ==
  /\ call.pc = "done"
  /\ outcome.state = "rejected"
  /\ \/ outcome.error = NotAFunction("bodySchema.safeParse")
     \/ call.caught = NotAFunction("schema.safeParse")

\* C37: schemas accepted at setup are usable at call time.  No call made
\* through the hooks of an API that createQueryAPI returned fails because a
\* schema of the configuration lacks safeParse: it ends in success, in a
\* ValidationError or in an error unrelated to the schema.
AcceptedSchemasUsable ==
  setup.state = "created" => ~SchemaFault

\* what the beforeRequest interceptor of a call can hand to fetch when the
\* call has built init on its own
SoloInits(config, c, init) ==
  IF ~config.beforeRequest THEN {init}
  ELSE BeforeResults(init)
         \cup (IF c.mutated
                THEN BeforeResults([init EXCEPT
                                     !.headers = @ \cup {"Authorization"}])
                ELSE {})

\* the call of context x is where a call that runs alone with the same
\* arguments and the same answers of its interceptors and of the transport
\* would be: the request it handed to its interceptor and to fetch is the
\* one built from its own arguments and the configuration, and its promise
\* is settled with what its own answers give
SoloRun(config, x) ==
  LET c == x.call
      b == Build(config, c.opts)
      r == AfterDecode(c.opts, c.resp, c.data)
  IN /\ c.pc = "idle" => x.sent = <<>> /\ x.outcome = NoOutcome
     /\ (c.pc = "before" /\ ~c.mutated) => c.url = b.url /\ c.init = b.init
     /\ c.pc \in {"before", "fetch", "after", "read"} => x.outcome = Pending
     /\ x.sent # <<>>
          => /\ Len(x.sent) = 1
             /\ x.sent[1].url = b.url
             /\ x.sent[1].init \in SoloInits(config, c, b.init)
             /\ x.sent[1].init.method = c.opts.method
             /\ x.sent[1].init.body = b.init.body
     /\ c.pc = "done"
          => IF b.thrown THEN x.outcome = Rejected(b.error) /\ x.sent = <<>>
             ELSE IF c.decoded
               THEN /\ c.data = Decode(c.reader, c.text).value
                    /\ x.outcome = IF r.thrown THEN Rejected(CatchBlock(r.error))
                                   ELSE Resolved(r.value)
             ELSE IF c.caught # NoError
               THEN x.outcome = Rejected(CatchBlock(c.caught))
             ELSE /\ x.sent = <<>>
                  /\ x.outcome \in {Rejected(UserError), Rejected(UserAPIError)}

\* C32: concurrent calls do not interfere.  With two fetcher calls in
\* flight, interleaved at their awaits, each call transmits the request and
\* settles with the outcome of a call that runs alone; a step of the
\* running call changes neither the suspended call nor the configuration
\* of the fetcher; and a key computed meanwhile is the key of its inputs.
ConcurrentCallsIndependent ==
  /\ [](/\ SoloRun(ConcurrentConfig, Running)
        /\ SoloRun(ConcurrentConfig, suspended)
        /\ kcall.result # <<>>
             => kcall.result = createKey(kcall.group, kcall.endpoint,
                                         kcall.params, kcall.query))
  /\ [][/\ fcfg' = fcfg
        /\ suspended' # suspended
             => suspended' = Running /\ Running' = suspended]_vars

\* two calls with different arguments are in flight, one waiting for its
\* afterResponse interceptor and one for its body, after a key was computed
WitnessConcurrentCallsIndependent ==
  /\ call.pc = "read"
  /\ suspended.call.pc = "after"
  /\ suspended.call.mutated
  /\ suspended.call.opts # call.opts
  /\ kcall.result # <<>>

\* the pairs the entries from position i on are to produce: none for an
\* entry that is undefined or null, one per scalar entry and per nested
\* object, and for an array one per item, all items when skipItems is
\* FALSE and the items that are neither undefined nor null when it is TRUE
RECURSIVE ExpectedPairs(_, _, _)
ExpectedPairs(o, i, skipItems) ==
  IF i > Len(o) THEN <<>>
  ELSE LET key == o[i].k
           value == o[i].v
           items == IF skipItems
                      THEN SelectSeq(value[2],
                                     LAMBDA x : x # Undefined /\ x # Null)
                      ELSE value[2]
       IN (IF value = Undefined \/ value = Null THEN <<>>
           ELSE IF value[1] = "arr"
             THEN [j \in 1..Len(items) |-> Pair(key, String(items[j]))]
           ELSE IF value[1] = "obj"
             THEN <<Pair(key, StringifyObject(value))>>
           ELSE <<Pair(key, String(value))>>)
            \o ExpectedPairs(o, i + 1, skipItems)

\* the url of a call whose query is to produce the given pairs: no '?' when
\* there is none
ExpectedURL(opts, pairs) ==
  fcfg.baseURL \o replacePath(opts.path, opts.params).path
    \o (IF pairs = <<>> THEN <<>> ELSE <<"?">> \o JoinPairs(pairs))

\* C19 as stated: the url of a call ends with one pair per scalar entry of
\* its query and one pair per array element, in insertion and element
\* order, the entries that are undefined or null being skipped; without a
\* pair no '?' is appended.
QuerySerialization ==
  call.url # <<>> =>
    call.url = ExpectedURL(call.opts,
                           ExpectedPairs(call.opts.query.ents, 1, FALSE))

\* C19 as amended: as above, with one pair per array element that is
\* neither undefined nor null.
QuerySerializationSkipsNull ==
  call.url # <<>> =>
    call.url = ExpectedURL(call.opts,
                           ExpectedPairs(call.opts.query.ents, 1, TRUE))

\* a call whose query holds a scalar and then an array with a null item
\* between two strings was sent to the url with the scalar pair and two
\* array pairs
WitnessQuerySerialization ==
  /\ sent # <<>>
  /\ Len(call.opts.query.ents) = 2
  /\ call.opts.query.ents[2].v = Arr(<<StrVal(<<"2">>), Null, StrVal(<<"1">>)>>)
  /\ sent[1].url = fcfg.baseURL \o <<"/", "u", "?", "b", "=", "1", "&",
                                     "a", "=", "2", "&", "a", "=", "1">>

\* the template from position i on with each token replaced by the
\* stringified value of its parameter and every other character kept
RECURSIVE TokensReplaced(_, _, _)
TokensReplaced(s, i, params) ==
  IF i > Len(s) THEN <<>>
  ELSE IF s[i] = ":" /\ i + 1 <= Len(s) /\ IsIdStart(s[i + 1])
    THEN String(Get(params, TakeIdent(s, i + 1)))
           \o TokensReplaced(s, i + 1 + Len(TakeIdent(s, i + 1)), params)
  ELSE <<s[i]>> \o TokensReplaced(s, i + 1, params)

\* C20: path round-trip.  The url of a call made with a params object that
\* has a key for each token of its path template holds, after the base
\* URL, the template with each token occurrence, taken left to right,
\* replaced by the stringified value of its parameter, and every other
\* character of the template unchanged, so that a template without tokens
\* is kept as it is.
PathRoundTrip ==
  (call.url # <<>> /\ call.opts.params.def /\ MissingNames(call.opts) = {})
    => call.url =
         fcfg.baseURL
           \o TokensReplaced(call.opts.path, 1, call.opts.params.ents)
           \o (IF buildQueryString(call.opts.query) = <<>> THEN <<>>
               ELSE <<"?">> \o buildQueryString(call.opts.query))

\* the values parseResponseData can return
DecodedValues ==
  {Decode(rt[1], rt[2]).value :
     rt \in {x \in {"json", "text"} \X BodyTexts :
               ~Decode(x[1], x[2]).thrown}}

\* the errors response validation can throw
ResponseValidationErrors ==
  {AfterDecode(opts, resp, data).error :
     opts \in {o \in FetchOptions : o.schema},
     resp \in {r \in Responses : r.ok},
     data \in {d \in DecodedValues : ~SafeParse(d).success}}

\* C18: validation errors are tagged by side.  The ValidationError of a call
\* rejected by request-body validation, before anything was sent, differs
\* from every ValidationError that response validation can produce.
ValidationSideTagged ==
  (call.pc = "done" /\ outcome.state = "rejected"
     /\ isValidationError(outcome.error) /\ sent = <<>>)
    => outcome.error \notin ResponseValidationErrors

(***************************************************************************)
(* Properties of the generated hooks                                       *)
(***************************************************************************)
\* the endpoints of a group
GroupEndpoints(group) == {ep \in Config : ep.group = group}

\* the invalidations the onSuccess of a mutation hook has issued
AutoInvalidations ==
  {invalidations[i] : i \in {j \in 1..Len(invalidations) :
                               invalidations[j].auto}}

\* C6: automatic invalidation.  Once a mutation whose fetcher call resolved
\* has settled, invalidateQueries has been called with the prefix [group]
\* of its endpoint, and that prefix matches every key the key factory
\* produces for the endpoints of the group.
AutomaticInvalidation ==
  (hook.kind = "mutation" /\ hook.stage = "settled"
     /\ outcome.state = "resolved")
    => /\ Invalidation(<<hook.ep.group>>, TRUE) \in AutoInvalidations
       /\ \A ep \in GroupEndpoints(hook.ep.group), params \in OptObjects :
            PartialMatch(<<hook.ep.group>>, KeyFn(ep, params, NoObject))

\* C7: automatic invalidation only after a successful mutation.  Whenever
\* an automatic invalidation has been issued, the hook in use is the
\* mutation hook of a POST, PUT, PATCH or DELETE endpoint and its fetcher
\* call has resolved.
InvalidationOnlyOnSuccess ==
  AutoInvalidations # {}
    => /\ hook.kind = "mutation"
       /\ hook.ep.method \in {"POST", "PUT", "PATCH", "DELETE"}
       /\ call.pc = "done"
       /\ outcome.state = "resolved"

\* a DELETE mutation whose call resolved after a beforeRequest interceptor
\* ran has issued its automatic invalidation
WitnessInvalidationOnlyOnSuccess ==
  /\ hook.kind = "mutation" /\ hook.stage = "settled"
  /\ hook.ep.method = "DELETE"
  /\ outcome.state = "resolved"
  /\ Ran("beforeRequest")
  /\ AutoInvalidations = {Invalidation(<<"users">>, TRUE)}

\* the keys of the cache entries the generated API can create: one per
\* endpoint, params and query
EntryKeys ==
  {KeyFn(ep, params, query) : ep \in Config, params \in HookArgs,
                              query \in HookArgs}

DirectInvalidation ==
  (hook.kind = "invalidate" /\ hook.stage = "settled" /\ hook.ep.direct)
    => /\ Len(invalidations) = 1
       /\ LET key == invalidations[1].queryKey
          IN /\ key[1] = hook.ep.group /\ key[2] = hook.ep.group
             /\ Len(key) = 2 + (IF hook.params.def /\ hook.params.ents # <<>>
                                  THEN 1 ELSE 0)
             /\ Len(key) = 3
                  => /\ KeysSorted(key[3])
                     /\ EntrySet(key[3]) = DefinedEntries(hook.params)

\* C24: direct endpoint at group level.  For a configuration entry g that
\* is itself an endpoint, invalidate(params) targets the key [g, g]
\* followed by the sorted params object when params is not empty, and a
\* mutation of the endpoint whose fetcher call resolved has invalidated
\* the prefix [g] once it has settled.
DirectEndpoint ==
  /\ DirectInvalidation
  /\ (hook.kind = "mutation" /\ hook.stage = "settled" /\ hook.ep.direct
        /\ outcome.state = "resolved")
       => invalidations = <<Invalidation(<<hook.ep.group>>, TRUE)>>

\* C31: one address for reading and invalidating.  While a query hook is in
\* use, the key it registered its query under is what the key function of
\* its endpoint returns for the params and the query its fetcher call was
\* made with, these params are the ones the hook was given, and both the
\* target of invalidate(params) and the prefix [group] match that key.
OneAddress ==
  hook.kind = "query"
    => /\ call.opts.params = hook.params
       /\ call.opts.method = "GET"
       /\ hook.key = KeyFn(hook.ep, call.opts.params, call.opts.query)
       /\ PartialMatch(KeyFn(hook.ep, hook.params, NoObject), hook.key)
       /\ PartialMatch(<<hook.ep.group>>, hook.key)

\* a query hook given params and a query has sent its request: the key
\* holds the group, the endpoint, the params and the query
WitnessOneAddress ==
  /\ hook.kind = "query"
  /\ hook.params.def /\ hook.params.ents # <<>>
  /\ call.opts.query.def /\ call.opts.query.ents # <<>>
  /\ Len(hook.key) = 4
  /\ sent # <<>>

\* C36: a caller's onSuccess does not suppress automatic invalidation.  For
\* a mutation given an onSuccess option whose fetcher call resolved, no
\* invalidation has been issued while the callback runs, and once the
\* mutation has settled the prefix [group] has been invalidated, whatever
\* the callback did.
OnSuccessKeepsInvalidation ==
  (hook.kind = "mutation" /\ hook.onSuccess /\ outcome.state = "resolved")
    => /\ hook.stage = "onSuccess" => invalidations = <<>>
       /\ hook.stage = "settled"
            => invalidations = <<Invalidation(<<hook.ep.group>>, TRUE)>>

\* querySchema.safeParse(query) succeeds, for the querySchema
\* z.object({ b: z.number() }) of the endpoints that have one: the query is
\* an object whose b is a number
QuerySchemaAccepts(query) ==
  /\ query.def
  /\ HasKey(query.ents, <<"b">>)
  /\ Get(query.ents, <<"b">>)[1] = "num"

\* C21: runtime validation of query parameters.  A query hook of an
\* endpoint with a querySchema that is given a query object the schema
\* rejects does not invoke fetch.
QueryParameterValidation ==
  (/\ hook.kind = "query"
   /\ hook.ep.querySchema
   /\ call.opts.query.def
   /\ ~QuerySchemaAccepts(call.opts.query))
    => sent = <<>>

\* C14: group invalidation.  Once invalidate.all() of a nested group has
\* been called, exactly one invalidation has been issued and its target is
\* the prefix [group], whatever the names of the endpoints of the group;
\* and every endpoint of the group has its hooks and its key function on
\* the API object.
GroupInvalidation ==
  (hook.kind = "invalidateAll" /\ hook.stage = "settled")
    => /\ invalidations = <<Invalidation(<<hook.ep.group>>, FALSE)>>
       /\ \A ep \in GroupEndpoints(hook.ep.group) :
            ApiHasEndpoint(Config, ep)

(***************************************************************************)
(* Properties of createQueryAPI                                            *)
(***************************************************************************)
\* the endpoints of the groups from position i on, in the order the loops
\* of validateConfig visit them, each with its location: a group-level value
\* with a method and a path, else every member of the group
RECURSIVE EndpointEntries(_, _)
EndpointEntries(groups, i) ==
  IF i > Len(groups) THEN <<>>
  ELSE (IF ~Truthy(groups[i].v) \/ TypeOf(groups[i].v) # "object" THEN <<>>
        ELSE IF isEndpointConfig(groups[i].v)
          THEN <<[loc |-> <<groups[i].k>>, value |-> groups[i].v]>>
        ELSE [j \in 1..Len(groups[i].v[2]) |->
                [loc |-> <<groups[i].k, groups[i].v[2][j].k>>,
                 value |-> groups[i].v[2][j].v]])
         \o EndpointEntries(groups, i + 1)

\* the method of an endpoint is one of the five verbs
HasValidMethod(e) ==
  In("method", e) /\ Prop(e, "method") \in {StrVal(<<m>>) : m \in Methods}

\* the path of an endpoint is a non-empty string that starts with '/'
HasValidPath(e) ==
  /\ In("path", e)
  /\ TypeOf(Prop(e, "path")) = "string"
  /\ Prop(e, "path")[2] # <<>>
  /\ Prop(e, "path")[2][1] = "/"

\* the endpoint is no object, or its method or its path is missing or
\* invalid
BadMethodOrPath(e) ==
  IF TypeOf(e) # "object" \/ e = Null THEN TRUE
  ELSE ~HasValidMethod(e) \/ ~HasValidPath(e)

\* the schemas an endpoint supplies, by field name
SuppliedSchemas(e) ==
  {f \in {"schema", "bodySchema", "querySchema"} :
     In(f, e) /\ Prop(e, f) # Undefined}

\* the schema exposes a validation function
HasCapability(schema) ==
  IF TypeOf(schema) # "object" \/ schema = Null THEN FALSE
  ELSE TypeOf(Prop(schema, "parse")) = "function"
         \/ TypeOf(Prop(schema, "safeParse")) = "function"

\* the texts of the errors about the method or the path of an endpoint
MethodPathTexts ==
  {"endpoint must be a non-null object",
   "missing required field \"method\"", "\"method\" must be a string",
   "\"method\" must be one of GET, POST, PUT, PATCH, DELETE",
   "missing required field \"path\"", "\"path\" must be a string",
   "\"path\" cannot be empty", "\"path\" must start with \"/\""}

\* the positions of the endpoints whose method or path is missing or
\* invalid
BadPositions(ents) == {i \in 1..Len(ents) : BadMethodOrPath(ents[i].value)}

\* C15: configuration validation of method and path.  When an endpoint of
\* the configuration has a missing or invalid method or path, createQueryAPI
\* throws; the error names the location of an endpoint at or before the
\* first such endpoint, and names that endpoint with a text about its method
\* or path when every schema supplied before it is a schema; and a key
\* function is only ever called on an API whose endpoints all have a valid
\* method and path.
MethodPathValidation ==
  setup.state # "none" =>
    LET ents == EndpointEntries(setup.config[2], 1)
        bad == BadPositions(ents)
        first == CHOOSE i \in bad : \A j \in bad : i <= j
    IN /\ bad # {} =>
            /\ setup.state = "threw"
            /\ \E i \in 1..first : setup.error.location = ents[i].loc
            /\ (\A i \in 1..(first - 1) :
                  \A f \in SuppliedSchemas(ents[i].value) :
                    HasCapability(Prop(ents[i].value, f)))
                 => /\ setup.error.location = ents[first].loc
                    /\ setup.error.text \in MethodPathTexts
       /\ kcall # NoKeyCall => (setup.state = "created" /\ bad = {})

\* createQueryAPI threw for the path of users.get, which does not start
\* with '/', after it had accepted users.list
WitnessMethodPathValidation ==
  /\ setup.state = "threw"
  /\ setup.error.location = <<"users", "get">>
  /\ setup.error.text = "\"path\" must start with \"/\""
  /\ setup.error.got = StrVal(<<"u">>)

\* C16: request schema on a body-less method.  createQueryAPI throws for a
\* configuration in which an endpoint with method GET or DELETE carries a
\* bodySchema, and the error names the method and the location of that
\* endpoint; it does not throw for a bodySchema on POST, PUT or PATCH.
BodySchemaOnBodylessMethod ==
  setup.state # "none" =>
    LET ents == EndpointEntries(setup.config[2], 1)
    IN \A i \in 1..Len(ents) :
         (~BadMethodOrPath(ents[i].value)
            /\ "bodySchema" \in SuppliedSchemas(ents[i].value)
            /\ \A j \in 1..Len(ents) :
                 /\ ~BadMethodOrPath(ents[j].value)
                 /\ \A f \in SuppliedSchemas(ents[j].value) :
                      HasCapability(Prop(ents[j].value, f)))
           => IF Prop(ents[i].value, "method") \in {StrVal(<<"GET">>),
                                                     StrVal(<<"DELETE">>)}
                THEN /\ setup.state = "threw"
                     /\ setup.error.location = ents[i].loc
                     /\ setup.error.got = Prop(ents[i].value, "method")
                ELSE setup.state = "created"

\* C17: schema capability check.  createQueryAPI throws whenever an
\* endpoint supplies a schema, bodySchema or querySchema that exposes no
\* validation function.
SchemaCapabilityCheck ==
  setup.state # "none" =>
    LET ents == EndpointEntries(setup.config[2], 1)
    IN (\E i \in 1..Len(ents) :
          /\ TypeOf(ents[i].value) = "object"
          /\ \E f \in SuppliedSchemas(ents[i].value) :
               ~HasCapability(Prop(ents[i].value, f)))
         => setup.state = "threw"

====
